---- MODULE Spec2Model ----
(***************************************************************************)
(* Model of the skydex firehose indexer.                                   *)
(*                                                                         *)
(*   SpecFirehose  src/src/indexFirehose.ts: handleFirehoseMessage, main   *)
(*                 (startup replay of the failed-message store, the        *)
(*                 WebSocket subscription, the cursor) with the two keyv   *)
(*                 stores of src/src/cache.ts.                             *)
(*   SpecRestart   the same with the process stopped and started again.    *)
(*   SpecStream    the live stream with three deliveries.                  *)
(*   SpecBatcher   src/src/util/batch.ts: Batcher.add / scheduleFlush /    *)
(*                 flush (SpecBatcherFair: the flush timeout fires).       *)
(*   SpecLimiter   src/src/api.ts: limit and the "failed" listener of the  *)
(*                 rate limiter, one job id.                               *)
(*   SpecResolver  handleRepoOperation.ts: resolveUser on the User table.  *)
(*   SpecUsers     handleActorCreate, handleHandleUpdate, handleActorDelete*)
(*                 interleaved with the calls of resolveUser they make.    *)
(*   SpecFollows   handleFollowCreate, handleFollowDelete.                 *)
(*   SpecPosts     resolvePost, insertPostRecord and the calls they make   *)
(*                 of each other and of resolveUser.                       *)
(*   SpecReplay    a sequence of messages handled twice, every handler run *)
(*                 to its end.                                             *)
(*   SpecWrites    the text that the handlers store (util.ts: normalize).  *)
(*   SpecThrottle  indexFirehose.ts: the event counters and the interval   *)
(*                 that sets the rate limiter's minTime.                   *)
(*   SpecCommits   handlePostCreate and handlePostDelete of two commits,   *)
(*                 run side by side.                                       *)
(*   SpecCoalescer api.ts: the batches of getProfilesBatch and the         *)
(*                 requests limit makes of them.                           *)
(*   SpecNormalize util.ts: normalize on strings of code points.           *)
(*                                                                         *)
(* In SpecFirehose the record handlers (handleHandleUpdate,                *)
(* handlePostCreate, ...) and the library decoders (Frame.fromBytes,       *)
(* assertValidXrpcMessage, readCar) are represented by their outcome: they *)
(* return or they throw.                                                   *)
(***************************************************************************)
EXTENDS Integers, Sequences, FiniteSets, TLC

\* SpecFirehose: number of messages the WebSocket delivers.
MaxDeliveries == 2
\* SpecRestart: number of messages the WebSocket delivers, over all runs.
MaxRestartDeliveries == 1
\* SpecRestart: number of times the process is started.
MaxRuns == 4
\* SpecBatcher: number of calls of Batcher.add.
MaxAdds == 3
\* SpecBatcher: options.maxSize of the modelled Batcher (api.ts passes 25).
MaxSize == 2
\* SpecLimiter: number of calls of limit.
MaxCalls == 2
\* SpecLimiter: number of attempts, over all jobs, that the server fails.
MaxFailures == 7
\* SpecResolver: number of calls of resolveUser.
MaxResolves == 2
\* SpecUsers: number of calls of handleActorCreate, handleHandleUpdate and
\* handleActorDelete.
MaxHandlers == 2
\* SpecPosts: number of calls that the record handlers make of insertPostRecord
\* and resolvePost.
MaxPostCalls == 2
\* SpecPosts: number of calls of resolvePost and insertPostRecord under way.
MaxDepth == 7
\* SpecStream: number of messages the socket delivers.
MaxStreamDeliveries == 3
\* SpecCoalescer: number of batches flushed, and the ms up to which time runs.
MaxFlushes == 3
MaxMillis == 1
\* SpecReplay: number of messages in the sequence that is handled twice.
MaxScript == 2
\* SpecNormalize: length of the strings normalize is called with.
MaxLen == 3
\* SpecThrottle: number of instants at which messages arrive.
MaxBursts == 3
\* SpecThrottle: the ms up to which the clock runs.
MaxClock == 2400
\* SpecThrottle: number of times the interval callback runs.
MaxTicks == 2
\* SpecThrottle: number of tokens the limiter's jobs take from a full reservoir.
MaxJobs == 2

VARIABLES
    run,          \* ghost: how many times the process has been started
    delivered,    \* ghost: how many messages the WebSocket has delivered
    cursor,       \* indexFirehose.ts:37  `let cursor` (0: undefined)
    cursorStore,  \* cursorPersist: the value of "cursor" that cursor.json holds
    failed,       \* failedMessages: key -> stored value
    tasks,        \* the started handleFirehoseMessage calls of this run
    mainPc,       \* main(): "replay" (the for loop) or "connected"
    replay,       \* main()'s loop state: keys, pos, message, retries, task
    relayLog,     \* the relay's event log (fixed once an event was sent)
    relayNext,    \* index of the next event the subscription delivers
    startCursor,  \* ghost: the cursor read from the cursor store at startup
    connectCursor,\* ghost: the cursor the WebSocket URL was built with
    failedReplays,\* ghost: key -> failed replays of the entry since its live capture
    startFailed,  \* ghost: the failed-message store as this run found it
    queue,        \* Batcher.queue: the ids waiting for the next flush
    timer,        \* Batcher.timer: TRUE while a flush timeout is scheduled
    promises,     \* Batcher.promises: id -> the future whose callbacks it holds
    futures,      \* the promises add() has returned: id, state, and (ghost) the
                  \* batch that took the id and the batch whose outcome settled it
    batches,      \* the flush() calls: the queue snapshot and where process stands
    now,          \* Date.now(), in ms since the process started
    unresolvedPromises, \* api.ts:66: id -> the job whose promise is stored
    backoffs,     \* api.ts:22: id -> the backoff of the job's last retry
    jobs,         \* the jobs handed to rateLimiter.schedule
    calls,        \* ghost: the calls of limit(): id, job returned, own fn scheduled
    failures,     \* ghost: how many attempts have failed
    users,        \* the User rows of the database: [did, handle]
    userDidCache, \* cache.ts:6: the dids the presence cache holds
    profiles,     \* the profiles app.bsky.actor.getProfiles serves: did -> handle
    resolvers,    \* the calls of resolveUser: did, position, locals, result
    written,      \* the row the last database write stored: table, field -> the strings stored
    verbose,      \* indexFirehose.ts:30  args.verbose
    clock,        \* performance.now(), in ms
    interval,     \* TRUE once the open listener has started the 15 s interval
    events,       \* indexFirehose.ts:135-137: eventCounter, eventsPerSecond, lastSecond
    settings,     \* the settings of rateLimiter (api.ts:20)
    observed,     \* ghost: the same three counters, kept for every message
    verboseMinTime, \* ghost: minTime of the run with --verbose that gets the same messages and ticks
    bursts,       \* ghost: how many times messages have arrived
    ticks,        \* ghost: how many times the interval callback has run
    posts,        \* the Post rows of the database: uri -> author, parent, root, quoted, likes, reposts
    followers,    \* the followers links of the User rows: [subject, did, rkey]
    postUriCache, \* cache.ts:7: the uris the presence cache holds
    handlers,     \* the calls of handleHandleUpdate and handleActorDelete: position and locals
    follow,       \* the last follow record handled, and the followers before it
    world,        \* the posts the API serves and the records the firehose carries
    stack,        \* the calls of resolvePost and insertPostRecord under way, innermost last
    returned,     \* what the call that returned last returned to its caller
    postCalls,    \* ghost: the calls made by the record handlers, with their results
    script,       \* the firehose messages that are handled, in order
    pass,         \* 1 or 2 while the messages are handled for the first or second time, then 3
    position,     \* the index in script of the message to handle next
    firstPass,    \* ghost: the database at the end of the first pass
    input,          \* the string that normalize is called with
    normalized,   \* the results of normalize: of str, then of the result before
    batchNow,     \* Date.now() when getProfilesBatch's process function runs, in ms
    batchPromises,\* api.ts:65  unresolvedPromises: job id -> the request in flight
    requests,     \* the outbound getProfiles calls: id, actors, state
    flushes       \* the batches flushed: keys, the request awaited, state, result per key

fvars == <<run, delivered, cursor, cursorStore, failed, tasks, mainPc, replay,
           relayLog, relayNext, startCursor, connectCursor, failedReplays, startFailed>>

bvars == <<queue, timer, promises, futures, batches>>

lvars == <<now, unresolvedPromises, backoffs, jobs, calls, failures>>

rvars == <<users, userDidCache, profiles, resolvers>>

wvars == <<written>>

tvars == <<verbose, clock, interval, events, settings, observed, verboseMinTime, bursts, ticks>>

dvars == <<posts, followers, postUriCache>>

hvars == <<handlers>>

evars == <<follow>>

pvars == <<world, stack, returned, postCalls>>

svars == <<script, pass, position, firstPass>>

nvars == <<input, normalized>>

cvars == <<batchNow, batchPromises, requests, flushes>>

notFirehose == <<bvars, lvars, rvars, wvars, tvars, dvars, hvars, evars, pvars, svars, nvars, cvars>>

notBatcher == <<fvars, lvars, rvars, wvars, tvars, dvars, hvars, evars, pvars, svars, nvars, cvars>>

notLimiter == <<fvars, bvars, rvars, wvars, tvars, dvars, hvars, evars, pvars, svars, nvars, cvars>>

notResolver == <<fvars, bvars, lvars, wvars, tvars, dvars, hvars, evars, pvars, svars, nvars, cvars>>

notWrites == <<fvars, bvars, lvars, rvars, tvars, dvars, hvars, evars, pvars, svars, nvars, cvars>>

notThrottle == <<fvars, bvars, lvars, rvars, wvars, dvars, hvars, evars, pvars, svars, nvars, cvars>>

notDatabase == <<fvars, bvars, lvars, rvars, wvars, tvars, hvars, evars, pvars, svars, nvars, cvars>>

notHandlers == <<fvars, bvars, lvars, rvars, wvars, tvars, dvars, evars, pvars, svars, nvars, cvars>>

\* The state outside the database, its caches and the calls that work on them.
notUsers == <<fvars, bvars, lvars, wvars, tvars, evars, pvars, svars, nvars, cvars>>

notFollows == <<fvars, bvars, lvars, rvars, wvars, tvars, hvars, pvars, svars, nvars, cvars>>

notPosts == <<fvars, bvars, lvars, wvars, tvars, hvars, evars, svars, nvars, cvars>>

notReplay == <<fvars, bvars, lvars, wvars, tvars, hvars, evars, nvars, cvars>>

notNormalize == <<fvars, bvars, lvars, rvars, wvars, tvars, dvars, hvars, evars, pvars, svars, cvars>>

notCoalescer == <<fvars, bvars, lvars, rvars, wvars, tvars, dvars, hvars, evars, pvars, svars, nvars>>

vars == <<fvars, bvars, lvars, rvars, wvars, tvars, dvars, hvars, evars, pvars, svars, nvars, cvars>>

----------------------------------------------------------------------------
(* Messages *)

Dids == {"did:a"}

\* An op of a commit either reaches an awaited record handler ("await") or is
\* passed over by a `continue` / an unmatched record type ("skip").
OpLists == {<<>>, <<"await">>, <<"skip", "await">>, <<"await", "await">>}

Msg(seq, frame, kind, did, blocks, ops) ==
    [seq |-> seq, frame |-> frame, kind |-> kind, did |-> did, rev |-> seq,
     blocks |-> blocks, ops |-> ops]

\* What the relay may send as event number seq.
Shapes(seq) ==
    {Msg(seq, "error", "none", "did:a", FALSE, <<>>),
     Msg(seq, "invalid", "none", "did:a", FALSE, <<>>),
     Msg(seq, "ok", "info", "did:a", FALSE, <<>>)}
    \cup {Msg(seq, "ok", k, d, FALSE, <<>>) :
            k \in {"handle", "tombstone", "identity"}, d \in Dids}
    \cup {Msg(seq, "ok", "commit", d, FALSE, <<>>) : d \in Dids}
    \cup {Msg(seq, "ok", "commit", d, TRUE, o) : d \in Dids, o \in OpLists}

Undefined == [undefined |-> TRUE]

\* `<repo>::<rev>` for a commit, `<did>::<kind>` otherwise.
FailedKey(m) ==
    IF m.kind = "commit" THEN <<m.did, "rev", m.rev>> ELSE <<m.did, m.kind, 0>>

\* The value the catch block of handleFirehoseMessage hands to failedMessages.set.
FailedValue(m) ==
    IF m.kind = "commit" THEN [message |-> m, retries |-> 0] ELSE m

\* `const { message, retries } = (await failedMessages.get(key)) ?? {}`:
\* a property the stored value lacks reads as undefined (NoRetries for retries).
NoRetries == 0 - 1
MessageOf(v) == IF "message" \in DOMAIN v THEN v.message ELSE Undefined
RetriesOf(v) == IF "retries" \in DOMAIN v THEN v.retries ELSE NoRetries

StoreSet(store, k, v) == [x \in DOMAIN store \cup {k} |-> IF x = k THEN v ELSE store[x]]
StoreDelete(store, k) == [x \in DOMAIN store \ {k} |-> store[x]]

EmptyStore == [x \in {} |-> Undefined]

----------------------------------------------------------------------------
(* handleFirehoseMessage *)

\* Mutant of StartPc: the envelope checks moved inside the try block, so that a
\* message failing them reaches the catch block.
StartPc_ValidateInTry(m) ==
    IF m.frame = "invalid" THEN "catch"
    ELSE IF m.frame # "ok" THEN "rejected"
    ELSE IF m.kind \in {"handle", "tombstone", "identity"} THEN "handler"
    ELSE IF m.kind = "info" THEN "done"
    ELSE IF ~m.blocks THEN "done"
    ELSE "readCar"

\* Where the call stands after its synchronous prefix (up to the first await).
StartPc(m) ==
    IF m.frame # "ok" THEN "rejected"
    ELSE IF m.kind \in {"handle", "tombstone", "identity"} THEN "handler"
    ELSE IF m.kind = "info" THEN "done"
    ELSE IF ~m.blocks THEN "done"
    ELSE "readCar"

NewTask(m, live) ==
    [msg |-> m, live |-> live, pc |-> StartPc(m), idx |-> 0,
     opsStarted |-> <<>>, opsHandled |-> <<>>, assigned |-> FALSE]

\* The first op at or after position from that reaches an awaited handler.
RECURSIVE NextAwait(_, _)
NextAwait(ops, from) ==
    IF from > Len(ops) THEN from
    ELSE IF ops[from] = "await" THEN from
    ELSE NextAwait(ops, from + 1)

\* Mutant of LoopStep: the handler of the last op is started without await, so
\* the cursor is set while it still runs.
LoopStep_LastOpNotAwaited(t, from) ==
    LET n == NextAwait(t.msg.ops, from) IN
    IF n <= Len(t.msg.ops)
    THEN [pc |-> "op", idx |-> n,
          assign |-> NextAwait(t.msg.ops, n + 1) > Len(t.msg.ops)]
    ELSE [pc |-> "done", idx |-> n, assign |-> TRUE]

\* The for loop of the commit branch, run from op number from to its next
\* await: either a handler is awaited, or the loop ends and the cursor is set.
LoopStep(t, from) ==
    LET n == NextAwait(t.msg.ops, from) IN
    IF n <= Len(t.msg.ops)
    THEN [pc |-> "op", idx |-> n, assign |-> FALSE]
    ELSE [pc |-> "done", idx |-> n, assign |-> TRUE]

\* Mutant of CursorAfterCatch: the catch block does not rethrow, so the
\* assignment after the try block runs.
CursorAfterCatch_Advance(t) == t.msg.seq

\* The cursor after the catch block of a failed call (it rethrows).
CursorAfterCatch(t) == cursor

Active(i) == i \in DOMAIN tasks

\* A #handle / #tombstone / #identity handler returns: cursor = message.seq.
HandlerReturn(i) ==
    /\ Active(i) /\ tasks[i].pc = "handler"
    /\ tasks' = [tasks EXCEPT ![i].pc = "done", ![i].assigned = TRUE]
    /\ cursor' = tasks[i].msg.seq
    /\ UNCHANGED <<run, delivered, cursorStore, failed, mainPc, replay, relayLog,
                   relayNext, startCursor, connectCursor, failedReplays, startFailed>>
    /\ UNCHANGED notFirehose

HandlerThrow(i) ==
    /\ Active(i) /\ tasks[i].pc = "handler"
    /\ tasks' = [tasks EXCEPT ![i].pc = "catch"]
    /\ UNCHANGED <<run, delivered, cursor, cursorStore, failed, mainPc, replay,
                   relayLog, relayNext, startCursor, connectCursor, failedReplays, startFailed>>
    /\ UNCHANGED notFirehose

ReadCarReturn(i) ==
    /\ Active(i) /\ tasks[i].pc = "readCar"
    /\ LET s == LoopStep(tasks[i], 1) IN
       /\ tasks' = [tasks EXCEPT ![i].pc = s.pc, ![i].idx = s.idx,
                       ![i].assigned = s.assign,
                       ![i].opsStarted = IF s.pc = "op" THEN <<s.idx>> ELSE <<>>]
       /\ cursor' = IF s.assign THEN tasks[i].msg.seq ELSE cursor
    /\ UNCHANGED <<run, delivered, cursorStore, failed, mainPc, replay, relayLog,
                   relayNext, startCursor, connectCursor, failedReplays, startFailed>>
    /\ UNCHANGED notFirehose

ReadCarThrow(i) ==
    /\ Active(i) /\ tasks[i].pc = "readCar"
    /\ tasks' = [tasks EXCEPT ![i].pc = "catch"]
    /\ UNCHANGED <<run, delivered, cursor, cursorStore, failed, mainPc, replay,
                   relayLog, relayNext, startCursor, connectCursor, failedReplays, startFailed>>
    /\ UNCHANGED notFirehose

\* The awaited record handler of op idx returns; the loop goes on.
OpReturn(i) ==
    /\ Active(i) /\ tasks[i].pc = "op"
    /\ LET t == tasks[i]
           s == LoopStep(t, t.idx + 1) IN
       /\ tasks' = [tasks EXCEPT ![i].pc = s.pc, ![i].idx = s.idx,
                       ![i].assigned = s.assign,
                       ![i].opsHandled = Append(t.opsHandled, t.idx),
                       ![i].opsStarted = IF s.pc = "op" THEN Append(t.opsStarted, s.idx)
                                         ELSE t.opsStarted]
       /\ cursor' = IF s.assign THEN t.msg.seq ELSE cursor
    /\ UNCHANGED <<run, delivered, cursorStore, failed, mainPc, replay, relayLog,
                   relayNext, startCursor, connectCursor, failedReplays, startFailed>>
    /\ UNCHANGED notFirehose

OpThrow(i) ==
    /\ Active(i) /\ tasks[i].pc = "op"
    /\ tasks' = [tasks EXCEPT ![i].pc = "catch"]
    /\ UNCHANGED <<run, delivered, cursor, cursorStore, failed, mainPc, replay,
                   relayLog, relayNext, startCursor, connectCursor, failedReplays, startFailed>>
    /\ UNCHANGED notFirehose

\* The catch block: await failedMessages.set(key, value); throw e.
CatchStore(i) ==
    /\ Active(i) /\ tasks[i].pc = "catch"
    /\ LET m == tasks[i].msg IN
       /\ failed' = StoreSet(failed, FailedKey(m), FailedValue(m))
       /\ failedReplays' = IF tasks[i].live \/ FailedKey(m) \notin DOMAIN failedReplays
                         THEN StoreSet(failedReplays, FailedKey(m), 0)
                         ELSE failedReplays
    /\ tasks' = [tasks EXCEPT ![i].pc = "threw"]
    /\ cursor' = CursorAfterCatch(tasks[i])
    /\ UNCHANGED <<run, delivered, cursorStore, mainPc, replay, relayLog,
                   relayNext, startCursor, connectCursor, startFailed>>
    /\ UNCHANGED notFirehose

----------------------------------------------------------------------------
(* main *)

Settled(t) == t.pc \in {"done", "threw", "rejected"}

\* Mutant of DrainFinished: main does not await the replay loop.
DrainFinished_NotAwaited == TRUE

\* The for loop over the stored keys has run to its end.
DrainFinished == replay.pos > Len(replay.keys) /\ replay.task = 0

\* One iteration of the replay loop up to its first await: read the entry,
\* skip it when it has no message, else call handleFirehoseMessage(message).
ReplayNext ==
    /\ mainPc = "replay" /\ replay.task = 0 /\ replay.pos <= Len(replay.keys)
    /\ LET key == replay.keys[replay.pos]
           entry == IF key \in DOMAIN failed THEN failed[key] ELSE EmptyStore
           message == MessageOf(entry)
           retries == RetriesOf(entry) IN
       IF message = Undefined
       THEN /\ replay' = [replay EXCEPT !.pos = @ + 1]
            /\ UNCHANGED tasks
       ELSE \E f \in {"ok", "invalid"} :
            /\ tasks' = Append(tasks, NewTask([message EXCEPT !.frame = f], FALSE))
            /\ replay' = [replay EXCEPT !.task = Len(tasks) + 1,
                                        !.message = message, !.retries = retries]
    /\ UNCHANGED <<run, delivered, cursor, cursorStore, failed, mainPc, relayLog,
                   relayNext, startCursor, connectCursor, failedReplays, startFailed>>
    /\ UNCHANGED notFirehose

\* The replayed call has settled: delete the entry, or run the catch block.
ReplaySettle ==
    /\ mainPc = "replay" /\ replay.task # 0 /\ Settled(tasks[replay.task])
    /\ LET key == replay.keys[replay.pos]
           retries == replay.retries IN
       IF tasks[replay.task].pc = "done"
       THEN /\ failed' = StoreDelete(failed, key)
            /\ failedReplays' = StoreDelete(failedReplays, key)
       ELSE IF retries # NoRetries /\ retries # 0 /\ retries >= 3
       THEN /\ failed' = StoreDelete(failed, key)
            /\ failedReplays' = StoreDelete(failedReplays, key)
       ELSE /\ failed' = StoreSet(failed, key,
                            [message |-> replay.message,
                             retries |-> (IF retries = NoRetries THEN 0 ELSE retries) + 1])
            /\ failedReplays' = [failedReplays EXCEPT ![key] = @ + 1]
    /\ replay' = [replay EXCEPT !.pos = @ + 1, !.task = 0]
    /\ UNCHANGED <<run, delivered, cursor, cursorStore, tasks, mainPc, relayLog,
                   relayNext, startCursor, connectCursor, startFailed>>
    /\ UNCHANGED notFirehose

\* new WebSocket(`...subscribeRepos${cursor ? `?cursor=${cursor}` : ""}`)
Connect ==
    /\ mainPc = "replay" /\ DrainFinished
    /\ mainPc' = "connected"
    /\ connectCursor' = cursor
    /\ relayNext' = IF cursor # 0 THEN cursor + 1 ELSE Len(relayLog) + 1
    /\ UNCHANGED <<run, delivered, cursor, cursorStore, failed, tasks, replay,
                   relayLog, startCursor, failedReplays, startFailed>>
    /\ UNCHANGED notFirehose

\* socket.on("message"): start the handler without awaiting it, then hand the
\* cursor to the cursor store (cursorPersist.set("cursor", cursor)).
Receive(maxDeliveries) ==
    /\ mainPc = "connected" /\ delivered < maxDeliveries
    /\ delivered' = delivered + 1
    /\ \E m \in (IF relayNext <= Len(relayLog) THEN {relayLog[relayNext]}
                 ELSE Shapes(relayNext)) :
         /\ relayLog' = IF relayNext <= Len(relayLog) THEN relayLog
                        ELSE Append(relayLog, m)
         /\ tasks' = Append(tasks, NewTask(m, TRUE))
    /\ relayNext' = relayNext + 1
    /\ cursorStore' = cursor
    /\ UNCHANGED <<run, cursor, failed, mainPc, replay, startCursor,
                   connectCursor, failedReplays, startFailed>>
    /\ UNCHANGED notFirehose

Orderings(S) ==
    {s \in [1..Cardinality(S) -> S] : \A a, b \in DOMAIN s : a # b => s[a] # s[b]}

\* The process is stopped and started again: module scope runs, then main().
Restart(maxRuns) ==
    /\ run < maxRuns
    /\ run' = run + 1
    /\ cursor' = cursorStore
    /\ startCursor' = cursorStore
    /\ connectCursor' = 0
    /\ tasks' = <<>>
    /\ mainPc' = "replay"
    /\ \E keys \in Orderings(DOMAIN failed) :
         replay' = [keys |-> keys, pos |-> 1, task |-> 0,
                    message |-> Undefined, retries |-> NoRetries]
    /\ relayNext' = 0
    /\ startFailed' = failed
    /\ UNCHANGED <<delivered, cursorStore, failed, relayLog, failedReplays>>
    /\ UNCHANGED notFirehose

InitFirehose ==
    /\ run = 1
    /\ delivered = 0
    /\ cursor = 0 /\ cursorStore = 0
    /\ failed = EmptyStore
    /\ tasks = <<>>
    /\ mainPc = "replay"
    /\ replay = [keys |-> <<>>, pos |-> 1, task |-> 0,
                 message |-> Undefined, retries |-> NoRetries]
    /\ relayLog = <<>>
    /\ relayNext = 0
    /\ startCursor = 0
    /\ connectCursor = 0
    /\ failedReplays = EmptyStore
    /\ startFailed = EmptyStore

----------------------------------------------------------------------------
(* Batcher *)

Ids == {"a", "b", "c"}

\* flush(): clear the timer, snapshot and clear the queue, call process(queue).
\* q is the queue and f the futures at the time of the call.
Flush(q, f) ==
    /\ timer' = FALSE
    /\ queue' = {}
    /\ batches' = Append(batches, [keys |-> q, state |-> "processing"])
    /\ futures' = [n \in DOMAIN f |->
                    IF f[n].batch = 0 /\ f[n].id \in q
                    THEN [f[n] EXCEPT !.batch = Len(batches) + 1] ELSE f[n]]

\* The entry of promises that add(id) leaves for id, n being the new future.
Registered(id, n) == StoreSet(promises, id, n)

\* Mutant of ScheduleFlush: no timeout is set.
ScheduleFlush_NoTimeout(t) == t

\* scheduleFlush(): the timer after the call, t being the timer before it.
ScheduleFlush(t) == IF ~t THEN TRUE ELSE t

\* add(id)
Add(id) ==
    /\ Len(futures) < MaxAdds
    /\ LET n == Len(futures) + 1
           q == queue \cup {id}
           f == Append(futures, [id |-> id, state |-> "pending", batch |-> 0, by |-> 0]) IN
       /\ promises' = Registered(id, n)
       /\ IF Cardinality(q) >= MaxSize
          THEN Flush(q, f)
          ELSE /\ queue' = q
               /\ futures' = f
               /\ timer' = ScheduleFlush(timer)
               /\ UNCHANGED batches
    /\ UNCHANGED notBatcher

\* The timeout set by scheduleFlush fires: flush().
TimerFire ==
    /\ timer
    /\ Flush(queue, futures)
    /\ UNCHANGED promises
    /\ UNCHANGED notBatcher

\* The for loops of flush(): settle the future promises holds for each id of
\* the snapshot and delete the entry. Settling a settled promise does nothing.
Settle(b, outcome) ==
    LET ks == batches[b].keys
        hit == {promises[id] : id \in ks \cap DOMAIN promises} IN
    /\ futures' = [n \in DOMAIN futures |->
                    IF n \in hit /\ futures[n].state = "pending"
                    THEN [futures[n] EXCEPT !.state = outcome, !.by = b]
                    ELSE futures[n]]
    /\ promises' = [id \in DOMAIN promises \ ks |-> promises[id]]
    /\ batches' = [batches EXCEPT ![b].state = "done"]
    /\ UNCHANGED <<queue, timer>>

\* await this.process(queue) returns the result map.
ProcessReturn(b) ==
    /\ b \in DOMAIN batches /\ batches[b].state = "processing"
    /\ Settle(b, "resolved")
    /\ UNCHANGED notBatcher

\* await this.process(queue) throws.
ProcessThrow(b) ==
    /\ b \in DOMAIN batches /\ batches[b].state = "processing"
    /\ Settle(b, "rejected")
    /\ UNCHANGED notBatcher

InitBatcher ==
    /\ queue = {}
    /\ timer = FALSE
    /\ promises = EmptyStore
    /\ futures = <<>>
    /\ batches = <<>>

----------------------------------------------------------------------------
(* Rate limiter and request coalescer (api.ts) *)

LimitIds == {"x"}

\* api.ts:33: the backoff a job id starts with, in ms.
SeedBackoff == 250
\* api.ts:44: a 429 without reset is retried while retryCount is below this.
MaxRetries == 5
\* api.ts:34
TooManyRequests == 429
\* ratelimit-reset of the modelled 429 responses: seconds after the response.
ResetAfter == 12
\* Times are kept below this many ms.
Horizon == 2000000000

\* JS numbers: a backoff is base * j^1.5 (base in ms, j the product of the
\* factors retryCount + 1 applied so far); the arithmetic on it is exact,
\* on little-endian numerals of base Limb.
Limb == 10000

RECURSIVE ToBig(_)
ToBig(n) == IF n = 0 THEN <<>> ELSE <<n % Limb>> \o ToBig(n \div Limb)

RECURSIVE BigAdd(_, _, _)
BigAdd(x, y, carry) ==
    IF x = <<>> /\ y = <<>> THEN ToBig(carry)
    ELSE LET a == IF x = <<>> THEN 0 ELSE Head(x)
             b == IF y = <<>> THEN 0 ELSE Head(y)
             v == a + b + carry IN
         <<v % Limb>> \o BigAdd(IF x = <<>> THEN <<>> ELSE Tail(x),
                                IF y = <<>> THEN <<>> ELSE Tail(y), v \div Limb)

RECURSIVE BigScale(_, _, _)
BigScale(x, c, carry) ==
    IF x = <<>> THEN ToBig(carry)
    ELSE LET v == Head(x) * c + carry IN
         <<v % Limb>> \o BigScale(Tail(x), c, v \div Limb)

RECURSIVE BigMul(_, _)
BigMul(x, y) ==
    IF x = <<>> THEN <<>>
    ELSE BigAdd(BigScale(y, Head(x), 0), <<0>> \o BigMul(Tail(x), y), 0)

\* -1, 0, 1 as x is below, equal to, above y.
RECURSIVE BigCmp(_, _)
BigCmp(x, y) ==
    IF x = <<>> /\ y = <<>> THEN 0
    ELSE LET a == IF x = <<>> THEN 0 ELSE Head(x)
             b == IF y = <<>> THEN 0 ELSE Head(y)
             c == BigCmp(IF x = <<>> THEN <<>> ELSE Tail(x),
                         IF y = <<>> THEN <<>> ELSE Tail(y)) IN
         IF c # 0 THEN c ELSE IF a < b THEN 0 - 1 ELSE IF a > b THEN 1 ELSE 0

\* The largest m in lo..hi with m * m <= n (n a numeral).
RECURSIVE BigSqrt(_, _, _)
BigSqrt(n, lo, hi) ==
    IF lo >= hi THEN lo
    ELSE LET mid == lo + (hi - lo + 1) \div 2 IN
         IF BigCmp(BigMul(ToBig(mid), ToBig(mid)), n) <= 0
         THEN BigSqrt(n, mid, hi) ELSE BigSqrt(n, lo, mid - 1)

\* Mutant of Escalate: the factor is retryCount + 1, without the power 1.5.
Escalate_Linear(backoff, retryCount) == [backoff EXCEPT !.base = @ * (retryCount + 1)]

\* backoff * (retryCount + 1) ** 1.5
Escalate(backoff, retryCount) == [backoff EXCEPT !.j = @ * (retryCount + 1)]

\* The whole ms of a backoff (base >= 0): floor(base * j^1.5).
Millis(backoff) ==
    LET b == ToBig(backoff.base)
        j == ToBig(backoff.j) IN
    BigSqrt(BigMul(BigMul(b, b), BigMul(j, BigMul(j, j))), 0, Horizon)

\* The errors a job can fail with at time t: 429 without headers, 429 with
\* ratelimit-remaining "0" and a reset, a 5xx, and an error without status
\* (network).
Errors(t) ==
    { [kind |-> "429",          status |-> TooManyRequests, remaining |-> "",  reset |-> 0],
      [kind |-> "429reset",     status |-> TooManyRequests, remaining |-> "0",
                                reset |-> t \div 1000 + ResetAfter],
      [kind |-> "500",          status |-> 500, remaining |-> "", reset |-> 0],
      [kind |-> "network",      status |-> 0,   remaining |-> "", reset |-> 0] }

\* Mutant of IsRateLimited: every error takes the 429 branch.
IsRateLimited_AnyError(statusCode) == TRUE

\* statusCode === 429
IsRateLimited(statusCode) == statusCode = TooManyRequests

\* The two header tests of the 429 branch ("" and 0: header absent).
MustWaitForReset(error) ==
    (error.remaining # "" /\ error.reset # 0) /\ error.remaining = "0"

\* Mutant of MayRetry: the listener gives up at the first 429.
MayRetry_Never(retryCount) == FALSE

\* jobInfo.retryCount < 5
MayRetry(retryCount) == retryCount < MaxRetries

\* rateLimiter.on("failed", (error, jobInfo) => ...): whether the job is retried,
\* the value returned, and the backoffs map the listener leaves.
OnFailed(error, id, retryCount) ==
    LET seeded  == IF id \in DOMAIN backoffs THEN backoffs
                   ELSE StoreSet(backoffs, id, [base |-> SeedBackoff, j |-> 1])
        backoff == seeded[id] IN
    IF IsRateLimited(error.status)
    THEN IF MustWaitForReset(error)
         THEN LET wait == error.reset * 1000 - now IN
              [retry |-> TRUE, wait |-> wait,
               backoffs |-> StoreSet(seeded, id, [base |-> wait, j |-> 1])]
         ELSE IF MayRetry(retryCount)
              THEN LET next == Escalate(backoff, retryCount) IN
                   [retry |-> TRUE, wait |-> Millis(next),
                    backoffs |-> StoreSet(seeded, id, next)]
              ELSE [retry |-> FALSE, wait |-> 0, backoffs |-> StoreDelete(seeded, id)]
    ELSE [retry |-> FALSE, wait |-> 0, backoffs |-> seeded]

\* Mutant of Existing: limit does not look the id up.
Existing_NotLookedUp(id) == 0

\* unresolvedPromises.get(id): the job stored for id, 0 when there is none.
Existing(id) == IF id \in DOMAIN unresolvedPromises THEN unresolvedPromises[id] ELSE 0

\* limit({ id }, fn)
LimitCall(id) ==
    /\ Len(calls) < MaxCalls
    /\ IF Existing(id) # 0
       THEN /\ calls' = Append(calls, [id |-> id, job |-> Existing(id), own |-> FALSE])
            /\ UNCHANGED <<jobs, unresolvedPromises>>
       ELSE /\ jobs' = Append(jobs, [id |-> id, state |-> "queued", retryCount |-> 0,
                                     notBefore |-> now, runs |-> 0, errs |-> <<>>,
                                     delays |-> <<>>,
                                     fresh |-> id \notin DOMAIN backoffs])
            /\ unresolvedPromises' = StoreSet(unresolvedPromises, id, Len(jobs) + 1)
            /\ calls' = Append(calls, [id |-> id, job |-> Len(jobs) + 1, own |-> TRUE])
    /\ UNCHANGED <<now, backoffs, failures>>
    /\ UNCHANGED notLimiter

\* The limiter runs fn, for the first time or after the wait of a retry.
JobStart(j) ==
    /\ j \in DOMAIN jobs /\ jobs[j].state = "queued" /\ now >= jobs[j].notBefore
    /\ jobs' = [jobs EXCEPT ![j].state = "running", ![j].runs = @ + 1]
    /\ UNCHANGED <<now, unresolvedPromises, backoffs, calls, failures>>
    /\ UNCHANGED notLimiter

\* fn fulfils: the promise of schedule() fulfils and the then-callback of
\* limit deletes the entry.
JobSucceed(j) ==
    /\ j \in DOMAIN jobs /\ jobs[j].state = "running"
    /\ jobs' = [jobs EXCEPT ![j].state = "fulfilled"]
    /\ unresolvedPromises' = StoreDelete(unresolvedPromises, jobs[j].id)
    /\ UNCHANGED <<now, backoffs, calls, failures>>
    /\ UNCHANGED notLimiter

\* fn rejects: the limiter asks the "failed" listener; a number re-queues the
\* job after that many ms, null rejects the promise of schedule(), on which
\* limit has registered no callback.
JobFail(j) ==
    /\ j \in DOMAIN jobs /\ jobs[j].state = "running"
    /\ failures < MaxFailures
    /\ failures' = failures + 1
    /\ \E error \in Errors(now) :
         LET r == OnFailed(error, jobs[j].id, jobs[j].retryCount) IN
         /\ backoffs' = r.backoffs
         /\ IF r.retry
            THEN /\ now + r.wait < Horizon
                 /\ jobs' = [jobs EXCEPT ![j].state = "queued",
                                         ![j].retryCount = @ + 1,
                                         ![j].notBefore = now + r.wait,
                                         ![j].errs = Append(@, error.kind),
                                         ![j].delays = Append(@, r.wait)]
            ELSE jobs' = [jobs EXCEPT ![j].state = "rejected",
                                      ![j].errs = Append(@, error.kind)]
    /\ UNCHANGED <<now, unresolvedPromises, calls>>
    /\ UNCHANGED notLimiter

\* Time passes until the wait of the next retry is over.
Advance ==
    LET waiting == {jobs[j].notBefore : j \in {i \in DOMAIN jobs :
                        jobs[i].state = "queued" /\ jobs[i].notBefore > now}} IN
    /\ waiting # {}
    /\ now' = CHOOSE t \in waiting : \A u \in waiting : t <= u
    /\ UNCHANGED <<unresolvedPromises, backoffs, jobs, calls, failures>>
    /\ UNCHANGED notLimiter

InitLimiter ==
    /\ now = 0
    /\ unresolvedPromises = EmptyStore
    /\ backoffs = EmptyStore
    /\ jobs = <<>>
    /\ calls = <<>>
    /\ failures = 0

----------------------------------------------------------------------------
(* resolveUser (handleRepoOperation.ts) *)

UserDids == {"did:A", "did:B"}

Handles == {"x", "y"}

\* The profiles the API can hold: no two dids have the same handle.
ProfileTables ==
    UNION {{t \in [S -> Handles] : \A a, b \in S : a # b => t[a] # t[b]} :
           S \in SUBSET UserDids}

\* The states of the User table, did and handle being `constraint exclusive`.
UserTables ==
    {t \in SUBSET [did : UserDids, handle : Handles] :
        \A a, b \in t : a # b => a.did # b.did /\ a.handle # b.handle}

\* What a statement that violates an exclusivity constraint yields in place of
\* a table: an EdgeDBError.
ConstraintViolation == {[did |-> "error", handle |-> "error"]}

\* The rows that e.select(e.User, { filter_single: { did } }) finds.
UsersWithDid(table, did) == {user \in table : user.did = did}

\* e.delete(e.User, { filter_single: { did } })
DeleteUser(table, did) == {user \in table : user.did # did}

Uris == {"p", "q", "r"}

Rkeys == {"1", "2"}

\* The Post that insertPostRecord inserts: no likes, no reposts; a link that is
\* not set is "none".
NewPost(author, parent, root, quoted) ==
    [author |-> author, parent |-> parent, root |-> root, quoted |-> quoted,
     likes |-> {}, reposts |-> {}]

\* The Post table once the rows of the uris in gone are deleted: parent, root
\* and quoted are `on target delete allow`, the link is cleared.
DeletePosts(table, gone) ==
    LET Cleared(uri) == IF uri \in gone THEN "none" ELSE uri IN
    [uri \in DOMAIN table \ gone |->
        [table[uri] EXCEPT !.parent = Cleared(@), !.root = Cleared(@),
                           !.quoted = Cleared(@)]]

\* The Post table once the User row of did is deleted: author is `on target
\* delete delete source`, likes and reposts are `on target delete allow`.
PostsAfterUserDelete(table, did) ==
    LET kept == DeletePosts(table, {uri \in DOMAIN table : table[uri].author = did}) IN
    [uri \in DOMAIN kept |->
        [kept[uri] EXCEPT !.likes = {link \in @ : link.did # did},
                          !.reposts = {link \in @ : link.did # did}]]

\* The followers links once the User row of did is deleted.
FollowersAfterUserDelete(links, did) ==
    {link \in links : link.subject # did /\ link.did # did}

\* [did, err]: the Result a call returns ("null", "undefined": the JS values).
Result(did, err) == [did |-> did, err |-> err]

\* What await getProfile(did) can settle with: the ProfileViewDetailed of the
\* did, undefined when getProfiles has no profile for it, or a rejection
\* (with "Profile not found" in its message, or any other).
ProfileOutcomes(did) ==
    (IF did \in DOMAIN profiles
     THEN {[kind |-> "profile", did |-> did, handle |-> profiles[did]]}
     ELSE {[kind |-> "undefined"], [kind |-> "notFound"]})
    \cup {[kind |-> "error"]}

\* previousHandleOwner?.success
Success(value) == "success" \in DOMAIN value /\ value.success

\* The update with no exclusivity constraint on handle.
UpdateHandle_NoConstraint(table, did, handle) ==
    {IF user.did = did THEN [user EXCEPT !.handle = handle] ELSE user :
        user \in table}

\* e.update(e.User, { filter_single: { did }, set: { handle } }): the table, or
\* ConstraintViolation when another row holds the handle.
UpdateHandle(table, did, handle) ==
    IF UsersWithDid(table, did) # {}
       /\ \E other \in table : other.did # did /\ other.handle = handle
    THEN ConstraintViolation
    ELSE {IF user.did = did THEN [user EXCEPT !.handle = handle] ELSE user :
            user \in table}

\* e.insert(e.User, { did, handle, ... }).unlessConflict(on did, else update
\* the handle): the table, or ConstraintViolation when another row holds the
\* handle.
InsertOrUpdateHandle(table, did, handle) ==
    IF \E other \in table : other.did # did /\ other.handle = handle THEN ConstraintViolation
    ELSE IF UsersWithDid(table, did) # {} THEN UpdateHandle(table, did, handle)
    ELSE table \cup {[did |-> did, handle |-> handle]}

\* resolveUser(did) is called.
Resolve(did) ==
    /\ Len(resolvers) < MaxResolves
    /\ resolvers' = Append(resolvers,
                       [did |-> did, pc |-> "cacheGet", handle |-> "none",
                        previous |-> "none", apiFailed |-> FALSE,
                        usersAtCall |-> users, result |-> Result("none", "none")])
    /\ UNCHANGED <<users, userDidCache, profiles>>
    /\ UNCHANGED notResolver

\* const cached = await userDidCache.get(did); if (cached) return [did, null];
CacheGet(i) ==
    /\ resolvers[i].pc = "cacheGet"
    /\ resolvers' = IF resolvers[i].did \in userDidCache
                    THEN [resolvers EXCEPT ![i].pc = "done",
                                           ![i].result = Result(resolvers[i].did, "null")]
                    ELSE [resolvers EXCEPT ![i].pc = "select"]
    /\ UNCHANGED <<users, userDidCache, profiles>>
    /\ UNCHANGED notResolver

\* const user = await e.select(e.User, ...); if (user) ...
SelectUser(i) ==
    /\ resolvers[i].pc = "select"
    /\ resolvers' = [resolvers EXCEPT ![i].pc =
                        IF UsersWithDid(users, resolvers[i].did) # {} THEN "cacheSet"
                        ELSE "getProfile"]
    /\ UNCHANGED <<users, userDidCache, profiles>>
    /\ UNCHANGED notResolver

\* const profile = await getProfile(did).catch(...) and the two tests on it.
GetProfile(i) ==
    /\ resolvers[i].pc = "getProfile"
    /\ \E profile \in ProfileOutcomes(resolvers[i].did) :
         resolvers' =
           IF profile.kind = "notFound"
           THEN [resolvers EXCEPT ![i].pc = "done", ![i].apiFailed = TRUE,
                                  ![i].result = Result("null", "null")]
           ELSE IF profile.kind = "error"
           THEN [resolvers EXCEPT ![i].pc = "done", ![i].apiFailed = TRUE,
                                  ![i].result = Result("null", "error")]
           ELSE IF profile.kind = "undefined"
           THEN [resolvers EXCEPT ![i].pc = "done",
                                  ![i].result = Result("null", "undefined")]
           ELSE [resolvers EXCEPT ![i].pc = "insert", ![i].handle = profile.handle]
    /\ UNCHANGED <<users, userDidCache, profiles>>
    /\ UNCHANGED notResolver

\* const inserted = await e.insert(e.User, ...).unlessConflict(on handle, else
\* user) with its catch for the conflict on did, and the test for a row
\* carrying a did.
InsertUser(i) ==
    LET did    == resolvers[i].did
        handle == resolvers[i].handle
        owners == {user.did : user \in {u \in users : u.handle = handle}} IN
    /\ resolvers[i].pc = "insert"
    /\ IF owners # {}
       THEN /\ resolvers' = [resolvers EXCEPT ![i].pc = "getPrevious",
                                 ![i].previous = CHOOSE d \in owners : TRUE]
            /\ UNCHANGED users
       ELSE IF UsersWithDid(users, did) # {}
       THEN /\ resolvers' = [resolvers EXCEPT ![i].pc = "cacheSet"]
            /\ UNCHANGED users
       ELSE /\ users' = users \cup {[did |-> did, handle |-> handle]}
            /\ resolvers' = [resolvers EXCEPT ![i].pc = "cacheSet"]
    /\ UNCHANGED <<userDidCache, profiles>>
    /\ UNCHANGED notResolver

\* const previousHandleOwner = await getProfile(previousHandleOwnerDid).catch(...)
\* with the delete of its catch, the test of the value, and, when the test
\* lets the call go on, the update of the previous owner and the insert of the
\* new owner.
PreviousOwnerProfile(i) ==
    LET did      == resolvers[i].did
        previous == resolvers[i].previous IN
    /\ resolvers[i].pc = "getPrevious"
    /\ \E previousHandleOwner \in ProfileOutcomes(previous) :
         IF previousHandleOwner.kind \in {"notFound", "error"}
         THEN /\ users' = IF previousHandleOwner.kind = "notFound"
                          THEN DeleteUser(users, previous) ELSE users
              /\ posts' = IF previousHandleOwner.kind = "notFound"
                          THEN PostsAfterUserDelete(posts, previous) ELSE posts
              /\ followers' = IF previousHandleOwner.kind = "notFound"
                              THEN FollowersAfterUserDelete(followers, previous)
                              ELSE followers
              /\ resolvers' = [resolvers EXCEPT ![i].pc = "done", ![i].apiFailed = TRUE,
                                                ![i].result = Result("null", "error")]
         ELSE IF ~Success(previousHandleOwner)
         THEN /\ resolvers' = [resolvers EXCEPT ![i].pc = "done",
                                                ![i].result = Result("null", "error")]
              /\ UNCHANGED <<users, posts, followers>>
         ELSE LET updated  == UpdateHandle(users, previous, previousHandleOwner.handle)
                  inserted == IF updated = ConstraintViolation THEN ConstraintViolation
                              ELSE InsertOrUpdateHandle(updated, did, resolvers[i].handle) IN
              /\ IF inserted = ConstraintViolation
                 THEN /\ users' = IF updated = ConstraintViolation THEN users ELSE updated
                      /\ resolvers' = [resolvers EXCEPT ![i].pc = "done",
                                                        ![i].result = Result("null", "error")]
                 ELSE /\ users' = inserted
                      /\ resolvers' = [resolvers EXCEPT ![i].pc = "cacheSet"]
              /\ UNCHANGED <<posts, followers>>
    /\ UNCHANGED <<userDidCache, profiles, postUriCache, handlers>>
    /\ UNCHANGED notUsers

\* await userDidCache.set(did, true); return [did, null];
CacheSet(i) ==
    /\ resolvers[i].pc = "cacheSet"
    /\ userDidCache' = userDidCache \cup {resolvers[i].did}
    /\ resolvers' = [resolvers EXCEPT ![i].pc = "done",
                                      ![i].result = Result(resolvers[i].did, "null")]
    /\ UNCHANGED <<users, profiles>>
    /\ UNCHANGED notResolver

\* handleHandleUpdate({ repo, handle }) is called: it calls resolveUser(repo).
HandleHandleUpdate(repo, handle) ==
    /\ Len(handlers) < MaxHandlers
    /\ handlers' = Append(handlers,
                      [kind |-> "handle", repo |-> repo, handle |-> handle,
                       pc |-> "resolveUser", call |-> Len(resolvers) + 1,
                       failed |-> FALSE])
    /\ resolvers' = Append(resolvers,
                       [did |-> repo, pc |-> "cacheGet", handle |-> "none",
                        previous |-> "none", apiFailed |-> FALSE,
                        usersAtCall |-> users, result |-> Result("none", "none")])
    /\ UNCHANGED <<users, userDidCache, profiles>>
    /\ UNCHANGED dvars
    /\ UNCHANGED notUsers

\* const [actor, actorError] = await resolveUser(repo) and the two tests on it
\* (an error that is undefined is not truthy).
HandleUpdateResolved(h) ==
    /\ handlers[h].kind = "handle" /\ handlers[h].pc = "resolveUser"
    /\ resolvers[handlers[h].call].pc = "done"
    /\ LET result == resolvers[handlers[h].call].result IN
       handlers' = [handlers EXCEPT ![h].pc =
                      IF result.err = "error" THEN "threw"
                      ELSE IF result.did = "null" THEN "returned"
                      ELSE "update"]
    /\ UNCHANGED rvars
    /\ UNCHANGED dvars
    /\ UNCHANGED notUsers

\* const updated = await e.update(e.User, { filter_single: { did: repo },
\* set: { handle } }) and `if (!updated || updated instanceof Error) throw`.
HandleUpdateWrite(h) ==
    LET updated == UpdateHandle(users, handlers[h].repo, handlers[h].handle) IN
    /\ handlers[h].kind = "handle" /\ handlers[h].pc = "update"
    /\ IF updated = ConstraintViolation \/ UsersWithDid(users, handlers[h].repo) = {}
       THEN /\ handlers' = [handlers EXCEPT ![h].pc = "threw"]
            /\ UNCHANGED users
       ELSE /\ handlers' = [handlers EXCEPT ![h].pc = "returned"]
            /\ users' = updated
    /\ UNCHANGED <<userDidCache, profiles, resolvers>>
    /\ UNCHANGED dvars
    /\ UNCHANGED notUsers

\* handleActorCreate({ repo }) is called: it calls resolveUser(repo).
HandleActorCreate(repo) ==
    /\ Len(handlers) < MaxHandlers
    /\ handlers' = Append(handlers,
                      [kind |-> "actor", repo |-> repo, handle |-> "none",
                       pc |-> "resolveUser", call |-> Len(resolvers) + 1,
                       failed |-> FALSE])
    /\ resolvers' = Append(resolvers,
                       [did |-> repo, pc |-> "cacheGet", handle |-> "none",
                        previous |-> "none", apiFailed |-> FALSE,
                        usersAtCall |-> users, result |-> Result("none", "none")])
    /\ UNCHANGED <<users, userDidCache, profiles>>
    /\ UNCHANGED dvars
    /\ UNCHANGED notUsers

\* const [actor, actorError] = await resolveUser(repo); throw on an error,
\* else return.
ActorCreateResolved(h) ==
    /\ handlers[h].kind = "actor" /\ handlers[h].pc = "resolveUser"
    /\ resolvers[handlers[h].call].pc = "done"
    /\ handlers' = [handlers EXCEPT ![h].pc =
                      IF resolvers[handlers[h].call].result.err = "error"
                      THEN "threw" ELSE "returned"]
    /\ UNCHANGED rvars
    /\ UNCHANGED dvars
    /\ UNCHANGED notUsers

\* handleActorDelete({ repo }) is called (a #tombstone).
HandleActorDelete(repo) ==
    /\ Len(handlers) < MaxHandlers
    /\ handlers' = Append(handlers,
                      [kind |-> "tombstone", repo |-> repo, handle |-> "none",
                       pc |-> "delete", call |-> 0, failed |-> FALSE])
    /\ UNCHANGED rvars
    /\ UNCHANGED dvars
    /\ UNCHANGED notUsers

\* await e.delete(e.User, { filter_single: { did: repo } }): the row goes, and
\* with it what the schema deletes or clears, or the statement throws.
ActorDeleteRun(h) ==
    LET repo == handlers[h].repo IN
    /\ handlers[h].kind = "tombstone" /\ handlers[h].pc = "delete"
    /\ \/ /\ users' = DeleteUser(users, repo)
          /\ posts' = PostsAfterUserDelete(posts, repo)
          /\ followers' = FollowersAfterUserDelete(followers, repo)
          /\ handlers' = [handlers EXCEPT ![h].pc = "purge"]
       \/ /\ handlers' = [handlers EXCEPT ![h].pc = "purge", ![h].failed = TRUE]
          /\ UNCHANGED <<users, posts, followers>>
    /\ UNCHANGED <<userDidCache, profiles, resolvers, postUriCache>>
    /\ UNCHANGED notUsers

\* finally { await userDidCache.delete(repo) }, then the handler returns, or
\* throws what the catch block made of the failed delete.
ActorDeletePurge(h) ==
    /\ handlers[h].kind = "tombstone" /\ handlers[h].pc = "purge"
    /\ userDidCache' = userDidCache \ {handlers[h].repo}
    /\ handlers' = [handlers EXCEPT ![h].pc = IF handlers[h].failed THEN "threw"
                                              ELSE "returned"]
    /\ UNCHANGED <<users, profiles, resolvers>>
    /\ UNCHANGED dvars
    /\ UNCHANGED notUsers

\* ---------------------------------------------------------------------------
\* Follow records
\* ---------------------------------------------------------------------------

\* The followers links of the database: a User follows a subject once, under
\* one rkey.
FollowerLinks ==
    {links \in SUBSET [subject : UserDids, did : UserDids, rkey : Rkeys] :
        \A a, b \in links : (a.subject = b.subject /\ a.did = b.did) => a = b}

\* followers: { "+=": e.select(e.User, { filter_single: { did: repo },
\* "@rkey": rkey }) } on the row of subject: repo is linked under rkey; a link
\* from repo that the row already has is the same link, its rkey overwritten.
AddFollower(links, subject, repo, rkey) ==
    {link \in links : ~(link.subject = subject /\ link.did = repo)}
        \cup {[subject |-> subject, did |-> repo, rkey |-> rkey]}

\* The rows that handleFollowDelete's filter selects: those with a followers
\* link whose did is repo and whose @rkey is rkey.
FollowedUnder(links, repo, rkey) ==
    {link.subject : link \in {l \in links : l.did = repo /\ l.rkey = rkey}}

\* followers: { "-=": e.select(e.User, { filter_single: { did: repo } }) } on the
\* rows of subjects.
RemoveFollower(links, subjects, repo) ==
    {link \in links : ~(link.subject \in subjects /\ link.did = repo)}

\* handleFollowCreate({ record, repo, uri }) for users the database holds:
\* both calls of resolveUser return the did, and the update adds the link.
HandleFollowCreate(repo, subject, rkey) ==
    /\ UsersWithDid(users, subject) # {} /\ UsersWithDid(users, repo) # {}
    /\ followers' = AddFollower(followers, subject, repo, rkey)
    /\ follow' = [op |-> "create", repo |-> repo, subject |-> subject,
                  rkey |-> rkey, prior |-> followers]
    /\ UNCHANGED <<posts, postUriCache>>
    /\ UNCHANGED notFollows

\* handleFollowDelete({ repo, rkey })
HandleFollowDelete(repo, rkey) ==
    /\ followers' = RemoveFollower(followers, FollowedUnder(followers, repo, rkey), repo)
    /\ follow' = [follow EXCEPT !.op = IF follow.op = "create" /\ follow.repo = repo
                                          /\ follow.rkey = rkey
                                       THEN "deleted" ELSE "delete"]
    /\ UNCHANGED <<posts, postUriCache>>
    /\ UNCHANGED notFollows

\* No follow record handled yet.
IdleFollows ==
    follow = [op |-> "none", repo |-> "none", subject |-> "none", rkey |-> "none",
              prior |-> {}]

\* Both users in the database, any followers between them.
InitFollowers ==
    /\ users = {[did |-> "did:A", handle |-> "x"], [did |-> "did:B", handle |-> "y"]}
    /\ userDidCache = {}
    /\ profiles = [d \in {"did:A", "did:B"} |-> IF d = "did:A" THEN "x" ELSE "y"]
    /\ resolvers = <<>>
    /\ posts = EmptyStore
    /\ followers \in FollowerLinks
    /\ postUriCache = {}
    /\ handlers = <<>>

\* ---------------------------------------------------------------------------
\* handlePostCreate and handlePostDelete of two commits, run side by side
\* ---------------------------------------------------------------------------

\* The message listener starts handlePostCreate for a post of did:A without
\* references: insertPostRecord calls resolveUser(repo).
PostCreateStart(uri) ==
    /\ Len(handlers) < MaxHandlers
    /\ handlers' = Append(handlers,
                      [kind |-> "postCreate", uri |-> uri, pc |-> "resolveUser",
                       call |-> Len(resolvers) + 1])
    /\ resolvers' = Append(resolvers,
                       [did |-> "did:A", pc |-> "cacheGet", handle |-> "none",
                        previous |-> "none", apiFailed |-> FALSE,
                        usersAtCall |-> users, result |-> Result("none", "none")])
    /\ UNCHANGED <<users, userDidCache, profiles>>
    /\ UNCHANGED dvars
    /\ UNCHANGED notUsers

\* const [author, authorError] = await resolveUser(repo) and the two tests.
PostCreateAuthor(h) ==
    /\ handlers[h].kind = "postCreate" /\ handlers[h].pc = "resolveUser"
    /\ resolvers[handlers[h].call].pc = "done"
    /\ LET result == resolvers[handlers[h].call].result IN
       handlers' = [handlers EXCEPT ![h].pc =
                      IF result.err = "error" THEN "threw"
                      ELSE IF result.did = "null" THEN "returned"
                      ELSE "insert"]
    /\ UNCHANGED rvars
    /\ UNCHANGED dvars
    /\ UNCHANGED notUsers

\* e.insert(e.Post, ...).unlessConflict((post) => ({ on: post.uri, else: post }))
PostCreateInsert(h) ==
    /\ handlers[h].kind = "postCreate" /\ handlers[h].pc = "insert"
    /\ posts' = IF handlers[h].uri \in DOMAIN posts THEN posts
                ELSE posts @@ (handlers[h].uri :> NewPost("did:A", "none", "none", "none"))
    /\ handlers' = [handlers EXCEPT ![h].pc = "cacheSet"]
    /\ UNCHANGED <<followers, postUriCache>>
    /\ UNCHANGED rvars
    /\ UNCHANGED notUsers

\* await postUriCache.set(uri, true); return [inserted, null];
PostCreateCache(h) ==
    /\ handlers[h].kind = "postCreate" /\ handlers[h].pc = "cacheSet"
    /\ postUriCache' = postUriCache \cup {handlers[h].uri}
    /\ handlers' = [handlers EXCEPT ![h].pc = "returned"]
    /\ UNCHANGED <<posts, followers>>
    /\ UNCHANGED rvars
    /\ UNCHANGED notUsers

\* The message listener starts handlePostDelete({ uri }).
PostDeleteStart(uri) ==
    /\ Len(handlers) < MaxHandlers
    /\ handlers' = Append(handlers,
                      [kind |-> "postDelete", uri |-> uri, pc |-> "delete", call |-> 0])
    /\ UNCHANGED rvars
    /\ UNCHANGED dvars
    /\ UNCHANGED notUsers

\* await e.delete(e.Post, () => ({ filter_single: { uri } })).run(dbClient)
PostDeleteRow(h) ==
    /\ handlers[h].kind = "postDelete" /\ handlers[h].pc = "delete"
    /\ posts' = DeletePosts(posts, {handlers[h].uri})
    /\ handlers' = [handlers EXCEPT ![h].pc = "cacheDelete"]
    /\ UNCHANGED <<followers, postUriCache>>
    /\ UNCHANGED rvars
    /\ UNCHANGED notUsers

\* finally { await postUriCache.delete(uri); }
PostDeleteCache(h) ==
    /\ handlers[h].kind = "postDelete" /\ handlers[h].pc = "cacheDelete"
    /\ postUriCache' = postUriCache \ {handlers[h].uri}
    /\ handlers' = [handlers EXCEPT ![h].pc = "returned"]
    /\ UNCHANGED <<posts, followers>>
    /\ UNCHANGED rvars
    /\ UNCHANGED notUsers

\* did:A is in the database, cached or not; no post is.
InitRace ==
    /\ users = {[did |-> "did:A", handle |-> "x"]}
    /\ userDidCache \in {{}, {"did:A"}}
    /\ profiles = [d \in {"did:A"} |-> "x"]
    /\ resolvers = <<>>
    /\ posts = EmptyStore
    /\ followers = {}
    /\ postUriCache = {}
    /\ handlers = <<>>

\* ---------------------------------------------------------------------------
\* getProfilesBatch: the batches of a Batcher go through limit (api.ts)
\* ---------------------------------------------------------------------------

\* `getProfilesBatch::${actors.length}::${Date.now()}`
BatchId(actors, time) == <<"getProfilesBatch", Cardinality(actors), time>>

\* flush() calls process(queue): limit({ id }, fn) returns the promise stored
\* for the id, or schedules the request and stores its promise.
ProcessBatch(actors) ==
    LET id == BatchId(actors, batchNow) IN
    /\ Len(flushes) < MaxFlushes
    /\ IF id \in DOMAIN batchPromises
       THEN /\ flushes' = Append(flushes, [keys |-> actors, request |-> batchPromises[id],
                                           state |-> "processing", result |-> <<>>])
            /\ UNCHANGED <<requests, batchPromises>>
       ELSE /\ requests' = Append(requests, [id |-> id, actors |-> actors,
                                             state |-> "scheduled"])
            /\ batchPromises' = StoreSet(batchPromises, id, Len(requests) + 1)
            /\ flushes' = Append(flushes, [keys |-> actors, request |-> Len(requests) + 1,
                                           state |-> "processing", result |-> <<>>])
    /\ UNCHANGED batchNow
    /\ UNCHANGED notCoalescer

\* getProfiles({ actors }) answers with the profiles of its actors: limit
\* deletes the id, every process call that awaits the promise reduces the
\* response to a record by did, and flush resolves each of its keys with
\* result[id] (undefined for a did the response does not hold).
Respond(r) ==
    /\ r \in DOMAIN requests /\ requests[r].state = "scheduled"
    /\ requests' = [requests EXCEPT ![r].state = "fulfilled"]
    /\ batchPromises' = StoreDelete(batchPromises, requests[r].id)
    /\ flushes' = [f \in DOMAIN flushes |->
                     IF flushes[f].request = r
                     THEN [flushes[f] EXCEPT
                             !.state = "resolved",
                             !.result = [k \in flushes[f].keys |->
                                           IF k \in requests[r].actors THEN k
                                           ELSE "undefined"]]
                     ELSE flushes[f]]
    /\ UNCHANGED batchNow
    /\ UNCHANGED notCoalescer

\* A millisecond passes.
Millisecond ==
    /\ batchNow < MaxMillis
    /\ batchNow' = batchNow + 1
    /\ UNCHANGED <<batchPromises, requests, flushes>>
    /\ UNCHANGED notCoalescer

\* No batch has been flushed.
IdleCoalescer ==
    /\ batchNow = 0
    /\ batchPromises = EmptyStore
    /\ requests = <<>>
    /\ flushes = <<>>

\* ---------------------------------------------------------------------------
\* resolvePost and insertPostRecord
\* ---------------------------------------------------------------------------

\* What a call settles with: a Result tuple [val, err], an Error, or null.
Tuple(val, err) == [kind |-> "tuple", val |-> val, err |-> err]

Null == [kind |-> "null", val |-> "null", err |-> "null"]

\* !value
Falsy(value) == value.kind = "null"

\* value instanceof Error
IsError(value) == value.kind = "error"

\* An app.bsky.feed.post record: repo, reply.parent.uri, reply.root.uri and
\* the uri of the quoted record ("none": not set).
ThreadRecord(author, parent, root, quoted) ==
    [author |-> author, parent |-> parent, root |-> root, quoted |-> quoted]

\* The records of the three uris: a thread r <- q <- p; p replying to q in the
\* thread of r and quoting q; p replying to itself; p and q quoting each other.
Threads ==
    {[uri \in Uris |->
        CASE uri = "p" -> ThreadRecord("did:A", "q", "r", "none")
          [] uri = "q" -> ThreadRecord("did:B", "r", "r", "none")
          [] OTHER     -> ThreadRecord("did:A", "none", "none", "none")],
     [uri \in Uris |->
        CASE uri = "p" -> ThreadRecord("did:A", "q", "r", "q")
          [] OTHER     -> ThreadRecord("did:B", "none", "none", "none")],
     [uri \in Uris |->
        CASE uri = "p" -> ThreadRecord("did:A", "p", "p", "none")
          [] OTHER     -> ThreadRecord("did:A", "none", "none", "none")],
     [uri \in Uris |->
        CASE uri = "p" -> ThreadRecord("did:A", "none", "none", "q")
          [] uri = "q" -> ThreadRecord("did:A", "none", "none", "p")
          [] OTHER     -> ThreadRecord("did:A", "none", "none", "none")]}

\* What getPost answers for each uri: the post view ("ok"), nothing
\* ("absent"), a rejection ("error"), a view that is no post record
\* ("invalid"). At most one uri is not served.
Serves ==
    {serve \in [Uris -> {"ok", "absent", "error", "invalid"}] :
        /\ Cardinality({uri \in Uris : serve[uri] # "ok"}) <= 1
        /\ serve["r"] # "invalid" /\ serve["p"] # "invalid"}

\* The API state and the records, and whether database statements can fail
\* (they can where the API serves every post).
Worlds ==
    {w \in [thread : Threads, serve : Serves, flaky : BOOLEAN] :
        w.flaky => \A uri \in Uris : w.serve[uri] = "ok"}

\* The innermost call.
Top == stack[Len(stack)]

\* A call of fn for uri (and, for insertPostRecord, record), at pc.
Frame(fn, uri, pc, record) ==
    [fn |-> fn, uri |-> uri, pc |-> pc, record |-> record, call |-> 0,
     parent |-> Null, root |-> Null, quoted |-> Null]

\* return value: the innermost call ends; log is the record of the handlers'
\* calls, where the value is noted when the call was a handler's.
Return(value, log) ==
    /\ stack' = SubSeq(stack, 1, Len(stack) - 1)
    /\ returned' = value
    /\ postCalls' = IF Len(stack) = 1
                    THEN [log EXCEPT ![Len(log)].pc = "done",
                                     ![Len(log)].result = value]
                    ELSE log

\* The innermost call moves to pc.
Goto(pc) ==
    /\ stack' = [stack EXCEPT ![Len(stack)].pc = pc]
    /\ UNCHANGED <<returned, postCalls>>

\* handlePostCreate({ record, repo, uri, cid }) calls insertPostRecord with the
\* record the firehose carries.
HandlePostCreate(uri) ==
    /\ stack = <<>> /\ Len(postCalls) < MaxPostCalls
    /\ stack' = <<Frame("insertPostRecord", uri, "resolveUser", world.thread[uri])>>
    /\ postCalls' = Append(postCalls,
                       [fn |-> "insertPostRecord", uri |-> uri, pc |-> "running",
                        result |-> Null, fetched |-> <<>>])
    /\ UNCHANGED <<world, returned>>
    /\ UNCHANGED <<rvars, dvars>>
    /\ UNCHANGED notPosts

\* A like or repost handler calls resolvePost(record.subject.uri).
ResolvePost(uri) ==
    /\ stack = <<>> /\ Len(postCalls) < MaxPostCalls
    /\ stack' = <<Frame("resolvePost", uri, "cacheGet", world.thread[uri])>>
    /\ postCalls' = Append(postCalls,
                       [fn |-> "resolvePost", uri |-> uri, pc |-> "running",
                        result |-> Null, fetched |-> <<>>])
    /\ UNCHANGED <<world, returned>>
    /\ UNCHANGED <<rvars, dvars>>
    /\ UNCHANGED notPosts

\* const cached = await postUriCache.get(uri); if (cached) return [uri, null];
PostCacheGet ==
    /\ stack # <<>> /\ Top.fn = "resolvePost" /\ Top.pc = "cacheGet"
    /\ IF Top.uri \in postUriCache
       THEN Return(Tuple(Top.uri, "null"), postCalls)
       ELSE Goto("select")
    /\ UNCHANGED world
    /\ UNCHANGED <<rvars, dvars>>
    /\ UNCHANGED notPosts

\* const postFromDb = await e.select(e.Post, ...).catch(() => null);
\* if (postFromDb) { await postUriCache.set(uri, true); return [uri, null]; }
SelectPost ==
    /\ stack # <<>> /\ Top.fn = "resolvePost" /\ Top.pc = "select"
    /\ \E threw \in (IF world.flaky THEN BOOLEAN ELSE {FALSE}) :
          IF ~threw /\ Top.uri \in DOMAIN posts
          THEN /\ postUriCache' = postUriCache \cup {Top.uri}
               /\ Return(Tuple(Top.uri, "null"), postCalls)
          ELSE /\ Goto("getPost")
               /\ UNCHANGED postUriCache
    /\ UNCHANGED <<world, posts, followers>>
    /\ UNCHANGED rvars
    /\ UNCHANGED notPosts

\* const [postView, postViewError] = await apiGetPost(uri).catch(...), the three
\* tests on the view, and the call of insertPostRecord with the view's record.
ApiGetPost ==
    LET log == [postCalls EXCEPT ![Len(postCalls)].fetched = Append(@, Top.uri)] IN
    /\ stack # <<>> /\ Top.fn = "resolvePost" /\ Top.pc = "getPost"
    /\ CASE world.serve[Top.uri] = "error"   -> Return(Tuple("null", "error"), log)
         [] world.serve[Top.uri] = "absent"  -> Return(Tuple("null", "null"), log)
         [] world.serve[Top.uri] = "invalid" -> Return(Tuple("null", "error"), log)
         [] OTHER ->
              /\ Len(stack) < MaxDepth
              /\ stack' = Append([stack EXCEPT ![Len(stack)].pc = "inserted"],
                                 Frame("insertPostRecord", Top.uri, "resolveUser",
                                       world.thread[Top.uri]))
              /\ postCalls' = log
              /\ UNCHANGED returned
    /\ UNCHANGED world
    /\ UNCHANGED <<rvars, dvars>>
    /\ UNCHANGED notPosts

\* const inserted = await insertPostRecord(...).catch((err) => err instanceof
\* Error ? err : null); the two tests on inserted, the cache, the return.
PostInserted ==
    /\ stack # <<>> /\ Top.fn = "resolvePost" /\ Top.pc = "inserted"
    /\ IF Falsy(returned)
       THEN /\ Return(Tuple("null", "error"), postCalls)
            /\ UNCHANGED postUriCache
       ELSE IF IsError(returned)
       THEN /\ Return(Tuple("null", "error"), postCalls)
            /\ UNCHANGED postUriCache
       ELSE /\ postUriCache' = postUriCache \cup {Top.uri}
            /\ Return(Tuple(Top.uri, "null"), postCalls)
    /\ UNCHANGED <<world, posts, followers>>
    /\ UNCHANGED rvars
    /\ UNCHANGED notPosts

\* insertPostRecord: const [author, authorError] = await resolveUser(repo);
AuthorResolve ==
    /\ stack # <<>> /\ Top.fn = "insertPostRecord" /\ Top.pc = "resolveUser"
    /\ stack' = [stack EXCEPT ![Len(stack)].pc = "author",
                              ![Len(stack)].call = Len(resolvers) + 1]
    /\ resolvers' = Append(resolvers,
                       [did |-> Top.record.author, pc |-> "cacheGet",
                        handle |-> "none", previous |-> "none", apiFailed |-> FALSE,
                        usersAtCall |-> users, result |-> Result("none", "none")])
    /\ UNCHANGED <<world, returned, postCalls>>
    /\ UNCHANGED <<users, userDidCache, profiles>>
    /\ UNCHANGED dvars
    /\ UNCHANGED notPosts

\* if (authorError) return [null, new Error(...)]; if (!author) return [null, null];
AuthorResolved ==
    /\ stack # <<>> /\ Top.fn = "insertPostRecord" /\ Top.pc = "author"
    /\ resolvers[Top.call].pc = "done"
    /\ IF resolvers[Top.call].result.err = "error"
       THEN Return(Tuple("null", "error"), postCalls)
       ELSE IF resolvers[Top.call].result.did = "null"
       THEN Return(Tuple("null", "null"), postCalls)
       ELSE Goto("parent")
    /\ UNCHANGED world
    /\ UNCHANGED <<rvars, dvars>>
    /\ UNCHANGED notPosts

\* The references with the root skipped.
NextReference_RootSkipped(ref) ==
    CASE ref = "parent" -> "quoted" [] ref = "root" -> "quoted" [] OTHER -> "insert"

\* The reference that follows ref in `[parent, parentError] = ..., [root,
\* rootError] = ..., [quoted, quotedError] = ...`.
NextReference(ref) ==
    CASE ref = "parent" -> "root" [] ref = "root" -> "quoted" [] OTHER -> "insert"

\* One of the three references: nothing for a reference that is not set, the
\* parent's result for a root that is the parent, else a call of resolvePost.
ResolveReference ==
    /\ stack # <<>> /\ Top.fn = "insertPostRecord"
    /\ Top.pc \in {"parent", "root", "quoted"}
    /\ LET ref == Top.pc
           uri == Top.record[ref] IN
       IF uri = "none"
       THEN Goto(NextReference(ref))
       ELSE IF ref = "root" /\ uri = Top.record.parent
       THEN /\ stack' = [stack EXCEPT ![Len(stack)].root = Top.parent,
                                      ![Len(stack)].pc = NextReference(ref)]
            /\ UNCHANGED <<returned, postCalls>>
       ELSE /\ Len(stack) < MaxDepth
            /\ stack' = Append([stack EXCEPT ![Len(stack)].pc = ref \o "Resolved"],
                               Frame("resolvePost", uri, "cacheGet", world.thread[uri]))
            /\ UNCHANGED <<returned, postCalls>>
    /\ UNCHANGED world
    /\ UNCHANGED <<rvars, dvars>>
    /\ UNCHANGED notPosts

\* The call of resolvePost for a reference has returned.
ReferenceResolved ==
    /\ stack # <<>> /\ Top.fn = "insertPostRecord"
    /\ Top.pc \in {"parentResolved", "rootResolved", "quotedResolved"}
    /\ stack' = [stack EXCEPT
                   ![Len(stack)] =
                       CASE Top.pc = "parentResolved" ->
                              [Top EXCEPT !.parent = returned, !.pc = "root"]
                         [] Top.pc = "rootResolved" ->
                              [Top EXCEPT !.root = returned, !.pc = "quoted"]
                         [] OTHER ->
                              [Top EXCEPT !.quoted = returned, !.pc = "insert"]]
    /\ UNCHANGED <<world, returned, postCalls>>
    /\ UNCHANGED <<rvars, dvars>>
    /\ UNCHANGED notPosts

\* The cache with no entry made for the inserted post.
CachedAfterInsert_NotSet(cache, uri) == cache

\* insertPostRecord: await postUriCache.set(uri, true), after the insert.
CachedAfterInsert(cache, uri) == cache \cup {uri}

\* parent ? e.select(e.Post, { filter_single: { uri: parent } }) : undefined
PostLink(result) ==
    IF result.val \in DOMAIN posts THEN result.val ELSE "none"

\* if (parentError || rootError || quotedError) return [null, new Error(...)];
\* the insert unlessConflict on uri with its catch, the two tests on inserted,
\* await postUriCache.set(uri, true); return [inserted, null];
InsertPost ==
    /\ stack # <<>> /\ Top.fn = "insertPostRecord" /\ Top.pc = "insert"
    /\ IF "error" \in {Top.parent.err, Top.root.err, Top.quoted.err}
       THEN /\ Return(Tuple("null", "error"), postCalls)
            /\ UNCHANGED <<posts, postUriCache>>
       ELSE \E inserted \in (IF world.flaky THEN {"post", "EdgeDBError", "null"}
                             ELSE {"post"}) :
              IF inserted = "EdgeDBError"
              THEN /\ Return(Tuple("null", "error"), postCalls)
                   /\ UNCHANGED <<posts, postUriCache>>
              ELSE IF inserted = "null"
              THEN /\ Return(Tuple("null", "null"), postCalls)
                   /\ UNCHANGED <<posts, postUriCache>>
              ELSE /\ posts' = IF Top.uri \in DOMAIN posts THEN posts
                               ELSE posts @@ (Top.uri :>
                                      NewPost(Top.record.author, PostLink(Top.parent),
                                              PostLink(Top.root), PostLink(Top.quoted)))
                   /\ postUriCache' = CachedAfterInsert(postUriCache, Top.uri)
                   /\ Return(Tuple("post", "null"), postCalls)
    /\ UNCHANGED <<world, followers>>
    /\ UNCHANGED rvars
    /\ UNCHANGED notPosts

\* No post is served and no call is under way.
IdlePosts ==
    /\ world = [thread |-> [uri \in Uris |-> ThreadRecord("did:A", "none", "none", "none")],
                serve |-> [uri \in Uris |-> "absent"], flaky |-> FALSE]
    /\ stack = <<>>
    /\ returned = Null
    /\ postCalls = <<>>

\* Any of the worlds, and no call under way.
InitPosts ==
    /\ world \in Worlds
    /\ stack = <<>>
    /\ returned = Null
    /\ postCalls = <<>>

\* An empty database, or one where did:B holds the handle of did:A; the API
\* serves the profile of did:A, and that of did:B or none.
InitAuthors ==
    /\ users \in {{}, {[did |-> "did:B", handle |-> "x"]}}
    /\ userDidCache = {}
    /\ profiles \in {t \in ProfileTables :
                        /\ "did:A" \in DOMAIN t /\ t["did:A"] = "x"
                        /\ "did:B" \in DOMAIN t => t["did:B"] = "y"
                        /\ users # {} => "did:B" \in DOMAIN t}
    /\ resolvers = <<>>
    /\ posts = EmptyStore
    /\ followers = {}
    /\ postUriCache = {}
    /\ handlers = <<>>

\* ---------------------------------------------------------------------------
\* A sequence of firehose messages handled twice
\* ---------------------------------------------------------------------------

\* The database.
Database == [users |-> users, posts |-> posts, followers |-> followers]

\* The database and the two presence caches.
Stores ==
    [users |-> users, posts |-> posts, followers |-> followers,
     userDidCache |-> userDidCache, postUriCache |-> postUriCache]

\* resolveUser(did) run to its end: the stores it leaves. The API answers; a
\* handle that another row holds ends the call with an error.
UserResolved(db, did) ==
    IF did \in db.userDidCache THEN db
    ELSE IF UsersWithDid(db.users, did) # {}
    THEN [db EXCEPT !.userDidCache = @ \cup {did}]
    ELSE IF did \in DOMAIN profiles
            /\ \A user \in db.users : user.handle # profiles[did]
    THEN [db EXCEPT !.users = @ \cup {[did |-> did, handle |-> profiles[did]]},
                    !.userDidCache = @ \cup {did}]
    ELSE db

\* resolveUser(did) returns [did, null].
UserFound(db, did) ==
    \/ did \in db.userDidCache
    \/ UsersWithDid(db.users, did) # {}
    \/ did \in DOMAIN profiles /\ \A user \in db.users : user.handle # profiles[did]

\* insertPostRecord run to its end for the record of uri, a record with no
\* reply and no quoted post.
PostRecordInserted(db, uri) ==
    LET author   == world.thread[uri].author
        resolved == UserResolved(db, author) IN
    IF ~UserFound(db, author) THEN resolved
    ELSE [resolved EXCEPT
            !.posts = IF uri \in DOMAIN @ THEN @
                      ELSE @ @@ (uri :> NewPost(author, "none", "none", "none")),
            !.postUriCache = @ \cup {uri}]

\* resolvePost(uri) run to its end.
PostResolved(db, uri) ==
    IF uri \in db.postUriCache THEN db
    ELSE IF uri \in DOMAIN db.posts THEN [db EXCEPT !.postUriCache = @ \cup {uri}]
    ELSE IF world.serve[uri] = "ok"
    THEN [PostRecordInserted(db, uri) EXCEPT !.postUriCache = @ \cup {uri}]
    ELSE db

\* resolvePost(uri) returns [uri, null].
PostFound(db, uri) ==
    uri \in db.postUriCache \/ uri \in DOMAIN db.posts \/ world.serve[uri] = "ok"

\* handleLikeCreate run to its end.
LikeCreated(db, repo, uri, rkey) ==
    LET subject == PostResolved(db, uri)
        actor   == UserResolved(subject, repo) IN
    IF ~PostFound(db, uri) THEN subject
    ELSE IF ~UserFound(subject, repo) \/ uri \notin DOMAIN actor.posts THEN actor
    ELSE [actor EXCEPT !.posts[uri].likes =
            {link \in @ : link.did # repo} \cup {[did |-> repo, rkey |-> rkey]}]

\* handleLikeDelete run to its end.
LikeDeleted(db, repo, rkey) ==
    [db EXCEPT !.posts =
        [uri \in DOMAIN @ |->
            IF [did |-> repo, rkey |-> rkey] \in @[uri].likes
            THEN [@[uri] EXCEPT !.likes = {link \in @ : link.did # repo}]
            ELSE @[uri]]]

\* handlePostDelete run to its end.
PostDeleted(db, uri) ==
    [db EXCEPT !.posts = DeletePosts(@, {uri}), !.postUriCache = @ \ {uri}]

\* handleActorDelete run to its end.
ActorDeleted(db, repo) ==
    [db EXCEPT !.users = DeleteUser(@, repo),
               !.posts = PostsAfterUserDelete(@, repo),
               !.followers = FollowersAfterUserDelete(@, repo),
               !.userDidCache = @ \ {repo}]

\* handleFollowCreate run to its end.
FollowCreated(db, repo, subject, rkey) ==
    LET subjectActor == UserResolved(db, subject)
        actor        == UserResolved(subjectActor, repo) IN
    IF ~UserFound(db, subject) THEN subjectActor
    ELSE IF ~UserFound(subjectActor, repo) THEN actor
    ELSE [actor EXCEPT !.followers = AddFollower(@, subject, repo, rkey)]

\* handleFollowDelete run to its end.
FollowDeleted(db, repo, rkey) ==
    [db EXCEPT !.followers = RemoveFollower(@, FollowedUnder(@, repo, rkey), repo)]

\* The messages: a #tombstone of repo, and the create or delete of a post, like
\* or follow record of repo ("none": not part of the message).
Messages ==
    [op : {"tombstone"}, repo : UserDids, uri : {"none"}, subject : {"none"},
     rkey : {"none"}]
    \cup [op : {"postCreate", "postDelete"}, repo : {"none"}, uri : Uris,
          subject : {"none"}, rkey : {"none"}]
    \cup [op : {"likeCreate"}, repo : UserDids, uri : Uris, subject : {"none"},
          rkey : Rkeys]
    \cup [op : {"likeDelete", "followDelete"}, repo : UserDids, uri : {"none"},
          subject : {"none"}, rkey : Rkeys]
    \cup [op : {"followCreate"}, repo : UserDids, uri : {"none"}, subject : UserDids,
          rkey : Rkeys]

Scripts == UNION {[1 .. n -> Messages] : n \in 0 .. MaxScript}

\* The message to handle.
Message == script[position]

\* The handler has run to its end and left the stores db.
Handled(db) ==
    /\ users' = db.users
    /\ posts' = db.posts
    /\ followers' = db.followers
    /\ userDidCache' = db.userDidCache
    /\ postUriCache' = db.postUriCache
    /\ position' = position + 1
    /\ UNCHANGED <<script, pass, firstPass, profiles, resolvers>>
    /\ UNCHANGED pvars
    /\ UNCHANGED notReplay

\* handleFirehoseMessage for a #tombstone.
HandleTombstone ==
    /\ pass < 3 /\ position <= Len(script) /\ Message.op = "tombstone"
    /\ Handled(ActorDeleted(Stores, Message.repo))

\* handleFirehoseMessage for a commit with an op on app.bsky.feed.post.
HandlePostMessage ==
    /\ pass < 3 /\ position <= Len(script)
    /\ Message.op \in {"postCreate", "postDelete"}
    /\ Handled(IF Message.op = "postCreate" THEN PostRecordInserted(Stores, Message.uri)
               ELSE PostDeleted(Stores, Message.uri))

\* handleFirehoseMessage for a commit with an op on app.bsky.feed.like.
HandleLikeMessage ==
    /\ pass < 3 /\ position <= Len(script)
    /\ Message.op \in {"likeCreate", "likeDelete"}
    /\ Handled(IF Message.op = "likeCreate"
               THEN LikeCreated(Stores, Message.repo, Message.uri, Message.rkey)
               ELSE LikeDeleted(Stores, Message.repo, Message.rkey))

\* handleFirehoseMessage for a commit with an op on app.bsky.graph.follow.
HandleFollowMessage ==
    /\ pass < 3 /\ position <= Len(script)
    /\ Message.op \in {"followCreate", "followDelete"}
    /\ Handled(IF Message.op = "followCreate"
               THEN FollowCreated(Stores, Message.repo, Message.subject, Message.rkey)
               ELSE FollowDeleted(Stores, Message.repo, Message.rkey))

\* The last message has been handled: the same messages arrive once more.
NextPass ==
    /\ pass < 3 /\ position > Len(script)
    /\ pass' = pass + 1
    /\ position' = 1
    /\ firstPass' = IF pass = 1 THEN Database ELSE firstPass
    /\ UNCHANGED script
    /\ UNCHANGED <<rvars, dvars, pvars>>
    /\ UNCHANGED notReplay

\* No message to handle.
IdleReplay ==
    /\ script = <<>>
    /\ pass = 1
    /\ position = 1
    /\ firstPass = [users |-> {}, posts |-> EmptyStore, followers |-> {}]

\* Any sequence of messages, to be handled twice.
InitScript ==
    /\ script \in Scripts
    /\ pass = 1
    /\ position = 1
    /\ firstPass = [users |-> {}, posts |-> EmptyStore, followers |-> {}]
    /\ world = [thread |-> [uri \in Uris |->
                              ThreadRecord(IF uri = "p" THEN "did:A" ELSE "did:B",
                                           "none", "none", "none")],
                serve |-> [uri \in Uris |-> "ok"], flaky |-> FALSE]
    /\ stack = <<>>
    /\ returned = Null
    /\ postCalls = <<>>

\* An empty database and empty caches; the API serves both profiles.
InitServed ==
    /\ users = {}
    /\ userDidCache = {}
    /\ profiles = [did \in UserDids |-> IF did = "did:A" THEN "x" ELSE "y"]
    /\ resolvers = <<>>
    /\ posts = EmptyStore
    /\ followers = {}
    /\ postUriCache = {}
    /\ handlers = <<>>

\* No database rows, no profiles, no call of resolveUser.
IdleResolver ==
    /\ users = {}
    /\ profiles = EmptyStore
    /\ userDidCache = {}
    /\ resolvers = <<>>
    /\ posts = EmptyStore
    /\ followers = {}
    /\ postUriCache = {}
    /\ handlers = <<>>

\* The database as earlier runs left it, the profiles the API serves, and the
\* in-memory presence cache of a process that has just started.
InitResolver ==
    /\ users \in UserTables
    /\ profiles \in ProfileTables
    /\ userDidCache = {}
    /\ resolvers = <<>>
    /\ posts = EmptyStore
    /\ followers = {}
    /\ postUriCache = {}
    /\ handlers = <<>>

\* A database with no user, with did:A, or with both users, each with a post;
\* the API serves the profile of did:A, and that of did:B unless the database
\* holds both users (did:B has left the network).
InitUsers ==
    /\ users \in {{}, {[did |-> "did:A", handle |-> "y"]},
                  {[did |-> "did:A", handle |-> "x"], [did |-> "did:B", handle |-> "y"]}}
    /\ profiles \in {t \in ProfileTables :
                        /\ "did:A" \in DOMAIN t /\ t["did:A"] = "x"
                        /\ "did:B" \in DOMAIN t => t["did:B"] = "y"
                        /\ "did:B" \in DOMAIN t <=> Cardinality(users) < 2}
    /\ userDidCache = {}
    /\ resolvers = <<>>
    /\ posts = [uri \in {IF user.did = "did:A" THEN "p" ELSE "q" : user \in users} |->
                  NewPost(IF uri = "p" THEN "did:A" ELSE "did:B", "none", "none", "none")]
    /\ followers = {}
    /\ postUriCache = {}
    /\ handlers = <<>>

----------------------------------------------------------------------------
(* The text the handlers and resolvers store *)

\* Strings are sequences of code points: 97, 98, 99 are "a", "b", "c", 124 is
\* "|", 8238 is U+202E and 8294 is U+2066. The empty string is <<>>; a value
\* that may be undefined is a sequence of no or one string.
Texts == {<<97>>, <<8238, 98>>, <<99, 8294, 124>>}

OptionalTexts == {<<>>} \cup {<<t>> : t \in Texts}

\* util.ts: /[\u{202A}-\u{202E}|\u{2066}-\u{2069}]/gu, a character class.
prohibitedCharacters == (8234 .. 8238) \cup {124} \cup (8294 .. 8297)

\* str.replace(prohibitedCharacters, "")
normalize(str) == SelectSeq(str, LAMBDA c : c \notin prohibitedCharacters)

filterTruthy(arr) == SelectSeq(arr, LAMBDA item : item # <<>>)

RECURSIVE join(_, _)
join(arr, separator) ==
    IF arr = <<>> THEN <<>>
    ELSE IF Len(arr) = 1 THEN arr[1]
    ELSE arr[1] \o separator \o join(Tail(arr), separator)

\* The post records of the modelled inputs: the embed is of images (with their
\* alt texts), external (title, description, uri) or absent.
Embeds ==
    {[type |-> "none", alts |-> <<>>, title |-> <<>>, description |-> <<>>, uri |-> <<>>]}
    \cup {[type |-> "images", alts |-> a, title |-> <<>>, description |-> <<>>, uri |-> <<>>] :
            a \in {<<x>> : x \in Texts \cup {<<>>}}
                  \cup {<<x, y>> : x \in Texts \cup {<<>>}, y \in Texts}}
    \cup {[type |-> "external", alts |-> <<>>, title |-> t, description |-> d, uri |-> u] :
            t \in Texts \cup {<<>>}, d \in Texts \cup {<<>>}, u \in {<<>>, <<97>>}}

PostRecords ==
    [text : Texts, embed : Embeds, langs : OptionalTexts, tags : OptionalTexts,
     labels : OptionalTexts]

\* The free-text properties of the Post that insertPostRecord inserts.
PostFields(record) ==
    LET altText == IF record.embed.type = "images"
                   THEN <<join(filterTruthy(record.embed.alts), <<10>>)>>
                   ELSE <<>>
        embed == record.embed.type = "external"
                 /\ ~(record.embed.title = <<>> /\ record.embed.description = <<>>
                      /\ record.embed.uri = <<>>)
        Part(str) == IF embed /\ str # <<>> THEN <<normalize(str)>> ELSE <<>>
        Each(list) == [i \in DOMAIN list |-> normalize(list[i])]
    IN [text |-> <<normalize(record.text)>>,
        embedTitle |-> Part(record.embed.title),
        embedDescription |-> Part(record.embed.description),
        embedUri |-> Part(record.embed.uri),
        altText |-> altText,
        langs |-> Each(record.langs),
        tags |-> Each(record.tags),
        labels |-> Each(record.labels)]

ProfileViews == [handle : Texts, displayName : OptionalTexts, description : OptionalTexts]

\* The free-text properties of the User that resolveUser inserts:
\* `const { displayName = profile.handle, handle, description: bio = "" } = profile`
UserFields(profile) ==
    LET displayName == IF profile.displayName = <<>> THEN profile.handle
                       ELSE profile.displayName[1]
        bio == IF profile.description = <<>> THEN <<>> ELSE profile.description[1]
    IN [displayName |-> <<normalize(displayName)>>,
        handle |-> <<normalize(profile.handle)>>,
        bio |-> <<normalize(bio)>>]

ProfileRecords == [displayName : OptionalTexts, description : OptionalTexts]

\* handleActorUpdate: `displayName ?? user.displayName`, `bio ?? user.bio`, the
\* parameter being null unless the record's value is truthy.
ActorUpdateFields(record, user) ==
    LET Param(value) == IF value # <<>> /\ value[1] # <<>>
                        THEN <<normalize(value[1])>> ELSE <<>>
        Coalesce(param, stored) == IF param # <<>> THEN param ELSE stored
    IN [user EXCEPT !.displayName = Coalesce(Param(record.displayName), @),
                    !.bio = Coalesce(Param(record.description), @)]

\* handleHandleUpdate: set: { handle: normalize(handle) }
HandleUpdateFields(handle, user) == [user EXCEPT !.handle = <<normalize(handle)>>]

\* SpecWrites follows one row from its insert on (unlessConflict leaves a row
\* that exists as it is).
InsertPostRow(record) ==
    /\ written.table = "none"
    /\ written' = [table |-> "Post", fields |-> PostFields(record)]
    /\ UNCHANGED notWrites

InsertUserRow(profile) ==
    /\ written.table = "none"
    /\ written' = [table |-> "User", fields |-> UserFields(profile)]
    /\ UNCHANGED notWrites

UpdateActorRow(record) ==
    /\ written.table = "User"
    /\ written' = [written EXCEPT !.fields = ActorUpdateFields(record, @)]
    /\ UNCHANGED notWrites

UpdateHandleRow(handle) ==
    /\ written.table = "User"
    /\ written' = [written EXCEPT !.fields = HandleUpdateFields(handle, @)]
    /\ UNCHANGED notWrites

\* The strings normalize is called with: up to MaxLen code points, among them
\* a letter, "|", and the first and last of the two ranges of the pattern.
Strings ==
    UNION {[1 .. n -> {97, 124, 8234, 8238, 8294, 8297}] : n \in 0 .. MaxLen}

\* normalize(str), then normalize of what it returned.
Normalize ==
    /\ Len(normalized) < 2
    /\ normalized' = Append(normalized,
                            normalize(IF normalized = <<>> THEN input
                                      ELSE normalized[Len(normalized)]))
    /\ UNCHANGED input
    /\ UNCHANGED notNormalize

\* No call of normalize.
IdleNormalize == input = <<>> /\ normalized = <<>>

InitNormalize == input \in Strings /\ normalized = <<>>

InitWrites == written = [table |-> "none", fields |-> <<>>]

----------------------------------------------------------------------------

(* Throttling by the firehose event rate (indexFirehose.ts) *)

\* api.ts:14
BOTTLENECK_OPTIONS ==
    [minTime |-> 110, reservoir |-> 2900, reservoirRefreshAmount |-> 2900,
     reservoirRefreshInterval |-> 5 * 60 * 1000]

\* How many messages arrive at one instant, and by how many ms the clock moves.
BurstSizes == {1, 280, 350}
Elapses == {400, 1000}

\* The body of `if (args.verbose) { ... }` in the message listener.
CountEvent(counters, time) ==
    LET counted == [counters EXCEPT !.eventCounter = @ + 1] IN
    IF time - counted.lastSecond >= 1000
    THEN [eventCounter |-> 0, eventsPerSecond |-> counted.eventCounter,
          lastSecond |-> time]
    ELSE counted

\* The counters after n messages that arrive at the same instant (the first
\* half of them, then the rest; the counters are never negative).
RECURSIVE CountEvents(_, _, _)
CountEvents(counters, time, n) ==
    IF n = 0 THEN counters
    ELSE IF n = 1 THEN CountEvent(counters, time)
    ELSE LET half == CountEvents(counters, time, n \div 2) IN
         IF half.eventCounter >= 0 THEN CountEvents(half, time, n - n \div 2)
         ELSE half

\* The settings the interval callback hands to rateLimiter.updateSettings.
MinTimeFor(eventsPerSecond) ==
    IF eventsPerSecond >= 350 THEN [BOTTLENECK_OPTIONS EXCEPT !.minTime = 750]
    ELSE IF eventsPerSecond >= 280 THEN [BOTTLENECK_OPTIONS EXCEPT !.minTime = 300]
    ELSE BOTTLENECK_OPTIONS

\* socket.on("open"): setInterval(..., 15_000)
Open ==
    /\ mainPc = "connected" /\ ~interval
    /\ interval' = TRUE
    /\ UNCHANGED <<verbose, clock, events, settings, observed, verboseMinTime, bursts, ticks>>
    /\ UNCHANGED notThrottle

\* The message listener runs n times at one instant: what it does to the
\* counters (the handler calls it starts are those of Receive).
ReceiveMany(n) ==
    /\ mainPc = "connected" /\ bursts < MaxBursts
    /\ bursts' = bursts + 1
    /\ events' = IF verbose THEN CountEvents(events, clock, n) ELSE events
    /\ observed' = CountEvents(observed, clock, n)
    /\ UNCHANGED <<verbose, clock, interval, settings, verboseMinTime, ticks>>
    /\ UNCHANGED notThrottle

Elapse(ms) ==
    /\ clock + ms <= MaxClock
    /\ clock' = clock + ms
    /\ UNCHANGED <<verbose, interval, events, settings, observed, verboseMinTime, bursts, ticks>>
    /\ UNCHANGED notThrottle

\* The interval callback.
Tick ==
    /\ interval /\ ticks < MaxTicks
    /\ ticks' = ticks + 1
    /\ settings' = MinTimeFor(events.eventsPerSecond)
    /\ verboseMinTime' = MinTimeFor(observed.eventsPerSecond).minTime
    /\ UNCHANGED <<verbose, clock, interval, events, observed, bursts>>
    /\ UNCHANGED notThrottle

\* limit: rateLimiter.schedule(options, fn) starts a job, which takes one token
\* of the reservoir.
Schedule ==
    /\ mainPc = "connected"
    /\ settings.reservoir > BOTTLENECK_OPTIONS.reservoir - MaxJobs
    /\ settings' = [settings EXCEPT !.reservoir = @ - 1]
    /\ UNCHANGED <<verbose, clock, interval, events, observed, verboseMinTime, bursts, ticks>>
    /\ UNCHANGED notThrottle

NoEvents == [eventCounter |-> 0, eventsPerSecond |-> 0, lastSecond |-> 0]

\* The process was started without --verbose.
IdleThrottle ==
    /\ verbose = FALSE
    /\ clock = 0
    /\ interval = FALSE
    /\ events = NoEvents
    /\ settings = BOTTLENECK_OPTIONS
    /\ observed = NoEvents
    /\ verboseMinTime = BOTTLENECK_OPTIONS.minTime
    /\ bursts = 0
    /\ ticks = 0

\* The process was started with or without --verbose.
InitThrottle ==
    /\ verbose \in BOOLEAN
    /\ clock = 0
    /\ interval = FALSE
    /\ events = NoEvents
    /\ settings = BOTTLENECK_OPTIONS
    /\ observed = NoEvents
    /\ verboseMinTime = BOTTLENECK_OPTIONS.minTime
    /\ bursts = 0
    /\ ticks = 0

----------------------------------------------------------------------------

(* Specifications *)

Init ==
    /\ InitFirehose /\ InitBatcher /\ InitLimiter /\ IdleResolver /\ InitWrites
    /\ IdleThrottle /\ IdleFollows /\ IdlePosts /\ IdleReplay /\ IdleNormalize /\ IdleCoalescer

InitDatabase ==
    /\ InitFirehose /\ InitBatcher /\ InitLimiter /\ InitResolver /\ InitWrites
    /\ IdleThrottle /\ IdleFollows /\ IdlePosts /\ IdleReplay /\ IdleNormalize /\ IdleCoalescer

InitAccounts ==
    /\ InitFirehose /\ InitBatcher /\ InitLimiter /\ InitUsers /\ InitWrites
    /\ IdleThrottle /\ IdleFollows /\ IdlePosts /\ IdleReplay /\ IdleNormalize /\ IdleCoalescer

InitArgs ==
    /\ InitFirehose /\ InitBatcher /\ InitLimiter /\ IdleResolver /\ InitWrites
    /\ InitThrottle /\ IdleFollows /\ IdlePosts /\ IdleReplay /\ IdleNormalize /\ IdleCoalescer

InitGraph ==
    /\ InitFirehose /\ InitBatcher /\ InitLimiter /\ InitFollowers /\ InitWrites
    /\ IdleThrottle /\ IdleFollows /\ IdlePosts /\ IdleReplay /\ IdleNormalize /\ IdleCoalescer

InitThreads ==
    /\ InitFirehose /\ InitBatcher /\ InitLimiter /\ InitAuthors /\ InitWrites
    /\ IdleThrottle /\ IdleFollows /\ InitPosts /\ IdleReplay /\ IdleNormalize /\ IdleCoalescer

InitReplay ==
    /\ InitFirehose /\ InitBatcher /\ InitLimiter /\ InitServed /\ InitWrites
    /\ IdleThrottle /\ IdleFollows /\ InitScript /\ IdleNormalize /\ IdleCoalescer

InitCommits ==
    /\ InitFirehose /\ InitBatcher /\ InitLimiter /\ InitRace /\ InitWrites
    /\ IdleThrottle /\ IdleFollows /\ IdlePosts /\ IdleReplay /\ IdleNormalize /\ IdleCoalescer

InitStrings ==
    /\ InitFirehose /\ InitBatcher /\ InitLimiter /\ IdleResolver /\ InitWrites
    /\ IdleThrottle /\ IdleFollows /\ IdlePosts /\ IdleReplay /\ InitNormalize /\ IdleCoalescer

\* One run of the process on an empty failed-message store.
NextFirehose ==
    \/ \E i \in DOMAIN tasks : HandlerReturn(i)
    \/ \E i \in DOMAIN tasks : HandlerThrow(i)
    \/ \E i \in DOMAIN tasks : ReadCarReturn(i)
    \/ \E i \in DOMAIN tasks : ReadCarThrow(i)
    \/ \E i \in DOMAIN tasks : OpReturn(i)
    \/ \E i \in DOMAIN tasks : OpThrow(i)
    \/ \E i \in DOMAIN tasks : CatchStore(i)
    \/ Connect
    \/ Receive(MaxDeliveries)

SpecFirehose == Init /\ [][NextFirehose]_vars

\* The live stream with one more delivery: the cursor a handler sets reaches
\* the cursor store with the message that follows.
NextStream ==
    \/ \E i \in DOMAIN tasks : HandlerReturn(i)
    \/ \E i \in DOMAIN tasks : HandlerThrow(i)
    \/ \E i \in DOMAIN tasks : ReadCarReturn(i)
    \/ \E i \in DOMAIN tasks : ReadCarThrow(i)
    \/ \E i \in DOMAIN tasks : OpReturn(i)
    \/ \E i \in DOMAIN tasks : OpThrow(i)
    \/ \E i \in DOMAIN tasks : CatchStore(i)
    \/ Connect
    \/ Receive(MaxStreamDeliveries)

SpecStream == Init /\ [][NextStream]_vars

\* The handlers of post creates and post deletes of different commits.
NextCommits ==
    \/ \E uri \in Uris : PostCreateStart(uri)
    \/ \E i \in DOMAIN resolvers : CacheGet(i)
    \/ \E i \in DOMAIN resolvers : SelectUser(i)
    \/ \E i \in DOMAIN resolvers : CacheSet(i)
    \/ \E h \in DOMAIN handlers : PostCreateAuthor(h)
    \/ \E h \in DOMAIN handlers : PostCreateInsert(h)
    \/ \E h \in DOMAIN handlers : PostCreateCache(h)
    \/ \E uri \in Uris : PostDeleteStart(uri)
    \/ \E h \in DOMAIN handlers : PostDeleteRow(h)
    \/ \E h \in DOMAIN handlers : PostDeleteCache(h)

SpecCommits == InitCommits /\ [][NextCommits]_vars

\* The batches of getProfilesBatch and the requests they become.
NextCoalescer ==
    \/ \E actors \in (SUBSET UserDids) \ {{}} : ProcessBatch(actors)
    \/ \E r \in DOMAIN requests : Respond(r)
    \/ Millisecond

SpecCoalescer == Init /\ [][NextCoalescer]_vars

\* The process with its restarts: every start drains the failed-message store.
NextRestart ==
    \/ \E i \in DOMAIN tasks : HandlerReturn(i)
    \/ \E i \in DOMAIN tasks : HandlerThrow(i)
    \/ \E i \in DOMAIN tasks : ReadCarReturn(i)
    \/ \E i \in DOMAIN tasks : ReadCarThrow(i)
    \/ \E i \in DOMAIN tasks : OpReturn(i)
    \/ \E i \in DOMAIN tasks : OpThrow(i)
    \/ \E i \in DOMAIN tasks : CatchStore(i)
    \/ ReplayNext
    \/ ReplaySettle
    \/ Connect
    \/ Receive(MaxRestartDeliveries)
    \/ Restart(MaxRuns)

SpecRestart == Init /\ [][NextRestart]_vars

\* One Batcher, its callers and its process function.
NextBatcher ==
    \/ \E id \in Ids : Add(id)
    \/ TimerFire
    \/ \E b \in DOMAIN batches : ProcessReturn(b)
    \/ \E b \in DOMAIN batches : ProcessThrow(b)

SpecBatcher == Init /\ [][NextBatcher]_vars

\* The timeout of scheduleFlush fires, and process settles.
SpecBatcherFair ==
    Init /\ [][NextBatcher]_vars /\ WF_vars(TimerFire)

\* The callers of limit, the limiter's jobs and the clock.
NextLimiter ==
    \/ \E id \in LimitIds : LimitCall(id)
    \/ \E j \in DOMAIN jobs : JobStart(j)
    \/ \E j \in DOMAIN jobs : JobSucceed(j)
    \/ \E j \in DOMAIN jobs : JobFail(j)
    \/ Advance

SpecLimiter == Init /\ [][NextLimiter]_vars

\* Calls of resolveUser, interleaved at their awaits.
NextResolver ==
    \/ \E did \in UserDids : Resolve(did)
    \/ \E i \in DOMAIN resolvers : CacheGet(i)
    \/ \E i \in DOMAIN resolvers : SelectUser(i)
    \/ \E i \in DOMAIN resolvers : GetProfile(i)
    \/ \E i \in DOMAIN resolvers : InsertUser(i)
    \/ \E i \in DOMAIN resolvers : PreviousOwnerProfile(i)
    \/ \E i \in DOMAIN resolvers : CacheSet(i)

SpecResolver == InitDatabase /\ [][NextResolver]_vars

NextUsers ==
    \/ \E repo \in UserDids : HandleActorCreate(repo)
    \/ \E h \in DOMAIN handlers : ActorCreateResolved(h)
    \/ \E i \in DOMAIN resolvers : CacheGet(i)
    \/ \E i \in DOMAIN resolvers : SelectUser(i)
    \/ \E i \in DOMAIN resolvers : GetProfile(i)
    \/ \E i \in DOMAIN resolvers : InsertUser(i)
    \/ \E i \in DOMAIN resolvers : PreviousOwnerProfile(i)
    \/ \E i \in DOMAIN resolvers : CacheSet(i)
    \/ \E repo \in UserDids, handle \in Handles : HandleHandleUpdate(repo, handle)
    \/ \E h \in DOMAIN handlers : HandleUpdateResolved(h)
    \/ \E h \in DOMAIN handlers : HandleUpdateWrite(h)
    \/ \E repo \in UserDids : HandleActorDelete(repo)
    \/ \E h \in DOMAIN handlers : ActorDeleteRun(h)
    \/ \E h \in DOMAIN handlers : ActorDeletePurge(h)

SpecUsers == InitAccounts /\ [][NextUsers]_vars

NextWrites ==
    \/ \E record \in PostRecords : InsertPostRow(record)
    \/ \E profile \in ProfileViews : InsertUserRow(profile)
    \/ \E record \in ProfileRecords : UpdateActorRow(record)
    \/ \E handle \in Texts : UpdateHandleRow(handle)

SpecWrites == Init /\ [][NextWrites]_vars

\* Follow records created and deleted, one handler at a time.
NextFollows ==
    \/ \E repo \in UserDids, subject \in UserDids, rkey \in Rkeys :
          HandleFollowCreate(repo, subject, rkey)
    \/ \E repo \in UserDids, rkey \in Rkeys : HandleFollowDelete(repo, rkey)

SpecFollows == InitGraph /\ [][NextFollows]_vars

\* Posts created and resolved, one handler at a time.
NextPosts ==
    \/ \E uri \in Uris : HandlePostCreate(uri)
    \/ \E uri \in Uris : ResolvePost(uri)
    \/ PostCacheGet
    \/ SelectPost
    \/ ApiGetPost
    \/ PostInserted
    \/ AuthorResolve
    \/ AuthorResolved
    \/ ResolveReference
    \/ ReferenceResolved
    \/ InsertPost
    \/ \E i \in DOMAIN resolvers : CacheGet(i)
    \/ \E i \in DOMAIN resolvers : SelectUser(i)
    \/ \E i \in DOMAIN resolvers : GetProfile(i)
    \/ \E i \in DOMAIN resolvers : InsertUser(i)
    \/ \E i \in DOMAIN resolvers : PreviousOwnerProfile(i)
    \/ \E i \in DOMAIN resolvers : CacheSet(i)

SpecPosts == InitThreads /\ [][NextPosts]_vars

\* The messages of the script handled one after another, twice.
NextReplay ==
    \/ HandleTombstone
    \/ HandlePostMessage
    \/ HandleLikeMessage
    \/ HandleFollowMessage
    \/ NextPass

SpecReplay == InitReplay /\ [][NextReplay]_vars

\* normalize applied to a string, and to its result.
NextNormalize == Normalize

SpecNormalize == InitStrings /\ [][NextNormalize]_vars

NextThrottle ==
    \/ Connect
    \/ Open
    \/ \E n \in BurstSizes : ReceiveMany(n)
    \/ \E ms \in Elapses : Elapse(ms)
    \/ Tick
    \/ Schedule

SpecThrottle == InitArgs /\ [][NextThrottle]_vars

----------------------------------------------------------------------------
(* Claims *)

StoredMessage(v) == IF "message" \in DOMAIN v THEN v.message ELSE v

\* The indices of the ops of a commit that reach an awaited handler, in order.
AwaitedOps(ops) == SelectSeq([n \in 1..Len(ops) |-> n], LAMBDA n : ops[n] = "await")

IsPrefix(a, b) == Len(a) <= Len(b) /\ \A n \in 1..Len(a) : a[n] = b[n]

\* C1: within a run of the process, no step lowers the in-memory cursor.
CursorNeverDecreases == [][run' = run => cursor' >= cursor]_vars

\* C2: every entry of the failed-message store holds a message together with a
\* retry counter, so that the startup drain reads both back.
FailedEntriesCarryRetryCounter ==
    \A k \in DOMAIN failed :
        MessageOf(failed[k]) # Undefined /\ RetriesOf(failed[k]) # NoRetries

\* The step in which the catch block of call i, handling a #commit, completes.
CommitCatchStep(i) ==
    /\ i \in DOMAIN tasks'
    /\ tasks[i].msg.kind = "commit"
    /\ tasks[i].pc = "catch" /\ tasks'[i].pc = "threw"

\* C3 (as stated): when the handling of a #commit throws, the message is stored
\* under <repo>::<rev> and the cursor is set to the message's seq.
CommitFailureAdvancesCursor ==
    [][\A i \in DOMAIN tasks :
          CommitCatchStep(i) =>
              /\ FailedKey(tasks[i].msg) \in DOMAIN failed'
              /\ cursor' = tasks[i].msg.seq]_vars

\* C3 (amended): when the handling of a #commit throws, the message is stored
\* under <repo>::<rev> with retries 0, and the call leaves the cursor as it is:
\* it never sets it to the message's seq.
CommitFailureCapturedCursorKept ==
    [][\A i \in DOMAIN tasks :
          CommitCatchStep(i) =>
              /\ FailedKey(tasks[i].msg) \in DOMAIN failed'
              /\ failed'[FailedKey(tasks[i].msg)]
                   = [message |-> tasks[i].msg, retries |-> 0]
              /\ cursor' = cursor
              /\ ~tasks'[i].assigned]_vars

CommitFailureCaptured ==
    \E i \in DOMAIN tasks :
        /\ tasks[i].live /\ tasks[i].msg.kind = "commit" /\ tasks[i].pc = "threw"
        /\ Len(tasks[i].opsHandled) >= 1
        /\ FailedKey(tasks[i].msg) \in DOMAIN failed
        /\ cursor # tasks[i].msg.seq

\* C4 (as stated): a live message that fails the envelope checks is stored in
\* the failed-message store and does not advance the cursor.
InvalidMessageCaptured ==
    \A i \in DOMAIN tasks :
        (tasks[i].live /\ tasks[i].msg.frame = "invalid") =>
            /\ \E k \in DOMAIN failed : StoredMessage(failed[k]) = tasks[i].msg
            /\ ~tasks[i].assigned

\* C4 (amended): a live message that fails the envelope checks is rejected
\* without being stored in the failed-message store, and does not advance the
\* cursor.
InvalidMessageNotCaptured ==
    \A i \in DOMAIN tasks :
        (tasks[i].live /\ tasks[i].msg.frame = "invalid") =>
            /\ tasks[i].pc = "rejected"
            /\ \A k \in DOMAIN failed : StoredMessage(failed[k]) # tasks[i].msg
            /\ ~tasks[i].assigned

InvalidMessageRejected ==
    \E i \in DOMAIN tasks :
        /\ tasks[i].live /\ tasks[i].msg.frame = "invalid" /\ tasks[i].pc = "rejected"
        /\ failed # EmptyStore

\* C5: once the startup drain has run to its end, every entry the run found in
\* the failed-message store has been removed or holds the same message with
\* its retry counter increased by one.
DrainProcessesEveryEntry ==
    (mainPc = "replay" /\ DrainFinished) =>
        \A k \in DOMAIN startFailed :
            \/ k \notin DOMAIN failed
            \/ /\ RetriesOf(startFailed[k]) # NoRetries
               /\ failed[k] = [message |-> MessageOf(startFailed[k]),
                               retries |-> RetriesOf(startFailed[k]) + 1]

\* C6: an entry whose replay has failed three times is no longer in the
\* failed-message store.
DiscardedOnThirdFailedReplay ==
    \A k \in DOMAIN failed : failedReplays[k] < 3

\* C7: the cursor the WebSocket is opened with is the one the cursor store held
\* when the process started.
ConnectsWithPersistedCursor ==
    mainPc = "connected" => connectCursor = startCursor

CommitOpsInOrderBeforeCursor ==
    \A i \in DOMAIN tasks :
        LET t == tasks[i]
            aw == AwaitedOps(t.msg.ops) IN
        t.msg.kind = "commit" =>
            /\ IsPrefix(t.opsStarted, aw) /\ IsPrefix(t.opsHandled, t.opsStarted)
            /\ Len(t.opsStarted) <= Len(t.opsHandled) + 1
            /\ t.assigned => (t.pc = "done" /\ t.opsHandled = aw)

CommitCursorAfterTwoOps ==
    \E i \in DOMAIN tasks :
        /\ tasks[i].msg.kind = "commit" /\ tasks[i].assigned
        /\ Len(tasks[i].opsHandled) >= 2
        /\ cursor = tasks[i].msg.seq

\* A future whose batch has been processed.
BatchDone(f) == f.batch # 0 /\ batches[f.batch].state = "done"

\* C10: once the batch holding its key has been processed, a future returned
\* by add is resolved or rejected.
FutureSettledWithItsBatch ==
    \A n \in DOMAIN futures : BatchDone(futures[n]) => futures[n].state # "pending"

\* C13: every call of process gets at least 1 and at most maxSize keys, and
\* every id passed to add is taken into a batch: at once by the size-triggered
\* flush, or later by the flush of the timer.
BatchesBoundedAndEveryKeyFlushed ==
    /\ [](\A b \in DOMAIN batches :
            /\ Cardinality(batches[b].keys) >= 1
            /\ Cardinality(batches[b].keys) <= MaxSize)
    /\ \A n \in 1..MaxAdds :
          (n \in DOMAIN futures /\ futures[n].batch = 0)
              ~> (n \in DOMAIN futures /\ futures[n].batch # 0
                                       /\ futures[n].id \in batches[futures[n].batch].keys)

FullAndTimedBatch ==
    /\ \E b \in DOMAIN batches : Cardinality(batches[b].keys) = MaxSize
    /\ \E b \in DOMAIN batches : Cardinality(batches[b].keys) = 1
    /\ queue = {}

\* C14: a future is settled by the outcome of the batch whose snapshot took its
\* key; a future whose key was added after the snapshot stays pending until
\* its own batch is processed.
FutureSettledByOwnBatch ==
    \A n \in DOMAIN futures :
        futures[n].state # "pending" => futures[n].by = futures[n].batch

\* The step in which job j fails with a 429 carrying ratelimit-remaining "0"
\* and a ratelimit-reset.
ResetWaitStep(j) ==
    /\ jobs[j].state = "running"
    /\ jobs'[j].errs = Append(jobs[j].errs, "429reset")

\* C15: on a 429 with ratelimit-remaining "0" and ratelimit-reset R the job is
\* retried after R * 1000 - now ms, so not before R, and the backoff kept for
\* the job's later retries is what it was before the wait.
ResetWaitIsNotEscalation ==
    [][\A j \in DOMAIN jobs :
          ResetWaitStep(j) =>
              LET R  == now \div 1000 + ResetAfter
                  id == jobs[j].id IN
              /\ jobs'[j].state = "queued"
              /\ jobs'[j].delays = Append(jobs[j].delays, R * 1000 - now)
              /\ jobs'[j].notBefore = R * 1000
              /\ id \in DOMAIN backoffs' =>
                    backoffs'[id] = IF id \in DOMAIN backoffs THEN backoffs[id]
                                    ELSE [base |-> SeedBackoff, j |-> 1]]_vars

\* api.ts:24-28: the delays of a job that is answered 429 every time.
PlainDelays == <<250, 707, 3674, 29393, 328633>>

\* A job that has only failed, every time with a 429 without reset headers,
\* starting from the seed (its id had no backoff when it was scheduled).
FailsWithPlain429(job) ==
    /\ job.fresh
    /\ job.runs = Len(job.errs) + (IF job.state = "running" THEN 1 ELSE 0)
    /\ \A k \in DOMAIN job.errs : job.errs[k] = "429"

AtMostFiveRetries ==
    \A j \in DOMAIN jobs : jobs[j].retryCount <= MaxRetries

\* C18: a failure whose status is not 429 is never followed by a retry: it is
\* the job's last attempt and the job's promise is rejected.
Non429NotRetried ==
    \A j \in DOMAIN jobs : \A k \in DOMAIN jobs[j].errs :
        jobs[j].errs[k] \in {"500", "network"} =>
            /\ k = Len(jobs[j].errs)
            /\ jobs[j].state = "rejected"
            /\ jobs[j].runs = k
            /\ Len(jobs[j].delays) = k - 1

RejectedOnFirst5xx ==
    \E j \in DOMAIN jobs : \E c \in DOMAIN calls :
        /\ calls[c].job = j
        /\ jobs[j].errs = <<"500">> /\ jobs[j].state = "rejected" /\ jobs[j].runs = 1

\* C19 (as stated): a job is surfaced as failed only when its retries are
\* exhausted, whether it failed with 429, 5xx or a network error.
FailureOnlyAfterExhaustion ==
    \A j \in DOMAIN jobs :
        jobs[j].state = "rejected" => jobs[j].retryCount >= MaxRetries

\* C19 (amended): only a 429 is retried: a 429 at retryCount below 5 is always
\* followed by a retry, and a job is surfaced as failed either by a 429 when
\* its retryCount has reached 5 or by its first 5xx or network error.
Only429Retried ==
    \A j \in DOMAIN jobs :
        LET job == jobs[j] IN
        /\ \A k \in DOMAIN job.errs :
              (job.errs[k] \in {"429", "429reset"} /\ k <= MaxRetries) =>
                  ~(k = Len(job.errs) /\ job.state = "rejected")
        /\ job.state = "rejected" =>
              \/ job.errs[Len(job.errs)] = "429" /\ job.retryCount >= MaxRetries
              \/ job.errs[Len(job.errs)] \in {"500", "network"}

NetworkErrorAfter429Retry ==
    \E j \in DOMAIN jobs :
        /\ jobs[j].errs = <<"429", "network">>
        /\ jobs[j].state = "rejected"
        /\ jobs[j].retryCount = 1

\* C20: handle move. When the table holds (A, x), the API serves B with handle
\* x and A with another handle y, and resolveUser(B) runs alone and is answered
\* by the API, it returns (B, null) and leaves the table with A under y and B
\* under x.
HandleMoveReconciled ==
    \A i \in DOMAIN resolvers : \A A \in UserDids :
        LET call == resolvers[i]
            B    == call.did IN
        (/\ Len(resolvers) = 1 /\ call.pc = "done" /\ ~call.apiFailed
         /\ A # B /\ UsersWithDid(call.usersAtCall, B) = {}
         /\ A \in DOMAIN profiles /\ B \in DOMAIN profiles
         /\ [did |-> A, handle |-> profiles[B]] \in call.usersAtCall
         /\ profiles[A] # profiles[B])
        => /\ call.result = Result(B, "null")
           /\ users = {[did |-> d, handle |-> profiles[d]] : d \in {A, B}}

\* The jobs of id that are queued or running.
InFlight(id) ==
    {j \in DOMAIN jobs : jobs[j].id = id /\ jobs[j].state \in {"queued", "running"}}

\* C11: for every id at most one job issued through limit is queued or running,
\* and a call of limit made while a job of its id is in flight returns that
\* job's promise without scheduling its own fn.
OneJobInFlightPerId ==
    /\ \A id \in LimitIds : Cardinality(InFlight(id)) <= 1
    /\ [][\A id \in LimitIds :
            (InFlight(id) # {} /\ Len(calls') = Len(calls) + 1
                               /\ calls'[Len(calls')].id = id) =>
                /\ calls'[Len(calls')].job \in InFlight(id)
                /\ ~calls'[Len(calls')].own
                /\ jobs' = jobs]_vars

CallJoinedInFlightJob ==
    \E c \in DOMAIN calls :
        /\ ~calls[c].own
        /\ jobs[calls[c].job].state = "running"
        /\ jobs[calls[c].job].retryCount >= 1

\* C12: a job that has completed, fulfilled or rejected, has no entry in the
\* in-flight map.
CompletedJobHasNoEntry ==
    \A j \in DOMAIN jobs :
        jobs[j].state \in {"fulfilled", "rejected"} => Existing(jobs[j].id) # j

\* C28: an error frame is terminal: no message that the socket delivers after an
\* error frame gets a handler call that runs to its end.
ErrorFrameIsTerminal ==
    \A i, j \in DOMAIN tasks :
        (i < j /\ tasks[i].live /\ tasks[i].msg.frame = "error" /\ tasks[j].live)
            => ~(tasks[j].msg.frame = "ok" /\ tasks[j].pc = "done")

\* U+202A..U+202E and U+2066..U+2069.
BidiControls == (8234 .. 8238) \cup (8294 .. 8297)

\* C26: no free-text value of a stored row holds a bidirectional control.
StoredTextHasNoBidiControl ==
    \A f \in DOMAIN written.fields :
        \A i \in DOMAIN written.fields[f] :
            \A k \in DOMAIN written.fields[f][i] :
                written.fields[f][i][k] \notin BidiControls

\* C29: a throttling tick sets minTime from the event rate of the last measured
\* second: 750 from 350 events on, 300 from 280 events on, else the baseline 110.
TickFollowsEventRate ==
    [][Tick => settings'.minTime =
                 (IF observed.eventsPerSecond >= 350 THEN 750
                  ELSE IF observed.eventsPerSecond >= 280 THEN 300
                  ELSE 110)]_vars

\* C21: in every database state no two User rows share a did and no two User
\* rows share a handle.
UsersUniqueByDidAndHandle ==
    \A a, b \in users : a # b => a.did # b.did /\ a.handle # b.handle

\* A handle update has rewritten a row next to a second row, and a handle
\* update for a handle that a second row holds has thrown.
HandleUpdatesMetSecondRow ==
    /\ Cardinality(users) = 2
    /\ \E h \in DOMAIN handlers :
          /\ handlers[h].kind = "handle" /\ handlers[h].pc = "returned"
          /\ [did |-> handlers[h].repo, handle |-> handlers[h].handle] \in users
    /\ \E h \in DOMAIN handlers :
          /\ handlers[h].kind = "handle" /\ handlers[h].pc = "threw"
          /\ \E other \in users :
                other.did # handlers[h].repo /\ other.handle = handlers[h].handle

\* C22: when the tombstone handler for a did returns, the database holds no User
\* row of that did and no Post of that author, and whether it returns or throws
\* the did is no longer in the user presence cache.
TombstoneLeavesNoUserNoPost ==
    [][\A h \in DOMAIN handlers :
          ActorDeletePurge(h) =>
              /\ handlers[h].repo \notin userDidCache'
              /\ handlers'[h].pc = "returned" =>
                    /\ UsersWithDid(users', handlers[h].repo) = {}
                    /\ \A uri \in DOMAIN posts' :
                          posts'[uri].author # handlers[h].repo]_vars

NewFollowCreateThenDeleteRestores ==
    [][\A repo \in UserDids, rkey \in Rkeys :
          (HandleFollowDelete(repo, rkey) /\ follow.op = "create"
              /\ follow.repo = repo /\ follow.rkey = rkey
              /\ \A link \in follow.prior :
                    ~(link.subject = follow.subject /\ link.did = repo)) =>
            {link \in followers' : link.subject = follow.subject}
                = {link \in follow.prior : link.subject = follow.subject}]_vars

\* C25: once insertPostRecord has returned the Post of a uri, the call of
\* resolvePost for that uri that follows makes no call of the API and returns
\* (uri, null).
InsertedPostResolvesWithoutApi ==
    \A i \in DOMAIN postCalls :
        (/\ i + 1 \in DOMAIN postCalls
         /\ postCalls[i].fn = "insertPostRecord"
         /\ postCalls[i].result = Tuple("post", "null")
         /\ postCalls[i + 1].fn = "resolvePost"
         /\ postCalls[i + 1].uri = postCalls[i].uri)
            => /\ postCalls[i + 1].fetched = <<>>
               /\ postCalls[i + 1].pc = "done" =>
                     postCalls[i + 1].result = Tuple(postCalls[i].uri, "null")

\* resolvePost has returned for a uri that insertPostRecord inserted just
\* before, where the select of the Post can fail.
ResolvedAfterInsert ==
    /\ world.flaky
    /\ Len(postCalls) = 2
    /\ postCalls[1].fn = "insertPostRecord"
    /\ postCalls[1].result = Tuple("post", "null")
    /\ postCalls[1].fetched # <<>>
    /\ postCalls[2].fn = "resolvePost" /\ postCalls[2].uri = postCalls[1].uri
    /\ postCalls[2].pc = "done"

\* C27: every call of resolvePost and insertPostRecord returns, whatever the
\* references of the posts are: no call of resolvePost for a uri is made while
\* one for that uri is under way (the inner call finds the cache and the
\* database as the outer one found them, and makes the same calls again).
NoResolvePostWithinItself ==
    \A i, j \in DOMAIN stack :
        (i < j /\ stack[i].fn = "resolvePost" /\ stack[j].fn = "resolvePost")
            => stack[i].uri # stack[j].uri

\* C30: resolvePost returns (null, err) and caches nothing when insertPostRecord
\* returned an error, returns (null, null) and caches nothing when it returned
\* a soft miss, and returns (uri, null) only with the uri cached and its Post
\* row in the database.
ResolvePostFollowsInsertOutcome ==
    [][/\ PostInserted =>
            /\ returned.err = "error" =>
                  returned' = Tuple("null", "error") /\ postUriCache' = postUriCache
            /\ returned = Tuple("null", "null") =>
                  returned' = Tuple("null", "null") /\ postUriCache' = postUriCache
       /\ (/\ stack # <<>> /\ Len(stack') < Len(stack) /\ Top.fn = "resolvePost"
           /\ returned' = Tuple(Top.uri, "null")) =>
               Top.uri \in postUriCache' /\ Top.uri \in DOMAIN posts']_vars

\* C23: once a sequence of messages has been handled a second time, the
\* database (users, posts, likes, reposts and followers with their rkeys) is
\* what it was after the first time.
SecondPassLeavesDatabase ==
    pass = 3 => Database = firstPass

\* C40: normalize removes the code points U+202A..U+202E and U+2066..U+2069 and
\* nothing else, keeps the order of what is left, and normalizing the result
\* again changes nothing.
NormalizeRemovesExactlyBidiControls ==
    /\ Len(normalized) >= 1 =>
          normalized[1] = SelectSeq(input, LAMBDA c : c \notin BidiControls)
    /\ Len(normalized) = 2 => normalized[2] = normalized[1]

\* The same without the claim that nothing else is removed: the result has no
\* bidirectional control, is what is left of the string in order, and is a fixed point.
NormalizeRemovesBidiControls ==
    /\ Len(normalized) >= 1 =>
          /\ \A i \in DOMAIN normalized[1] : normalized[1][i] \notin BidiControls
          /\ normalized[1] = SelectSeq(input, LAMBDA c : c \notin BidiControls \cup {124})
    /\ Len(normalized) = 2 => normalized[2] = normalized[1]

\* C31: resolveUser goes into the handle-move reconciliation only for a
\* conflicting row of another did; a call whose insert met the row of its own
\* did caches the did and returns (did, null).
ReconcilesOnlyOtherDid ==
    /\ \A i \in DOMAIN resolvers :
          (resolvers[i].pc = "done" /\ resolvers[i].previous = resolvers[i].did)
              => resolvers[i].result = Result(resolvers[i].did, "null")
    /\ [][\A i \in DOMAIN resolvers :
            (InsertUser(i) /\ resolvers'[i].pc = "getPrevious")
                => resolvers'[i].previous # resolvers[i].did]_vars

\* The reference `[parent, ...], [root, ...], [quoted, ...]` resolves after ref.
ReferenceAfter(ref) ==
    CASE ref \in {"parent", "parentResolved"} -> "root"
      [] ref \in {"root", "rootResolved"}     -> "quoted"
      [] OTHER                                -> "insert"

\* A call of resolvePost returned [null, null].
SoftMiss(result) == result = Tuple("null", "null")

\* C32: insertPostRecord resolves parent, then root, then quoted, with one call
\* of resolvePost for a parent and a root of the same uri; after an error of
\* any of them it inserts no Post and returns an error; after a soft miss it
\* inserts the Post with that reference unset.
ReferencesResolveInOrder ==
    [][/\ ResolveReference =>
            LET ref == Top.pc
                caller == stack'[Len(stack)] IN
            /\ caller.pc \in {ref \o "Resolved", ReferenceAfter(ref)}
            /\ (ref = "root" /\ Top.record.root = Top.record.parent) =>
                  /\ Len(stack') = Len(stack)
                  /\ caller.root = Top.parent
            /\ Len(stack') > Len(stack) =>
                  /\ stack'[Len(stack')].fn = "resolvePost"
                  /\ stack'[Len(stack')].uri = Top.record[ref]
       /\ ReferenceResolved => stack'[Len(stack)].pc = ReferenceAfter(Top.pc)
       /\ InsertPost =>
            /\ ("error" \in {Top.parent.err, Top.root.err, Top.quoted.err}) =>
                  /\ posts' = posts
                  /\ returned' = Tuple("null", "error")
            /\ ("error" \notin {Top.parent.err, Top.root.err, Top.quoted.err}) =>
                  \A ref \in {"parent", "root", "quoted"} :
                        (Top.record[ref] # "none" /\ SoftMiss(Top[ref]))
                            => /\ Top.uri \in DOMAIN posts'
                               /\ posts'[Top.uri][ref] = "none"
                               /\ returned' = Tuple("post", "null")]_vars

\* handlePostCreate of p has inserted p, a reply to q which the API does not
\* have, with no parent.
InsertedWithParentUnset ==
    /\ world.thread["p"].parent = "q" /\ world.serve["q"] = "absent"
    /\ \E i \in DOMAIN postCalls :
          /\ postCalls[i].fn = "insertPostRecord" /\ postCalls[i].uri = "p"
          /\ postCalls[i].result = Tuple("post", "null")
    /\ "p" \in DOMAIN posts /\ posts["p"].parent = "none"

\* C35: the presence caches are sound: every did of userDidCache has a User
\* row and every uri of postUriCache has a Post row.
PresenceCachesAreSound ==
    /\ \A did \in userDidCache : \E user \in users : user.did = did
    /\ \A uri \in postUriCache : uri \in DOMAIN posts

\* C38: a throttling tick changes only minTime: the reservoir holds as many
\* tokens after the tick as before it.
TickKeepsReservoir ==
    [][Tick => settings'.reservoir = settings.reservoir]_vars

\* C39: --verbose changes no state but the log: the limiter's minTime is that
\* of the run with --verbose that gets the same messages and ticks.
VerboseOnlyLogs == settings.minTime = verboseMinTime

\* C36: while the failed-message store holds an entry for a key, the retry
\* counter of that entry never decreases.
RetryCounterNeverDecreases ==
    [][\A key \in DOMAIN failed \cap DOMAIN failed' :
          RetriesOf(failed'[key]) >= RetriesOf(failed[key])]_vars

\* C34: no message is lost across a restart: every message (a frame that
\* carries one) the socket has delivered whose seq is at most the cursor handed
\* to the cursor store has been handled to the end or is in the failed-message
\* store.
NoMessageLostBelowStoredCursor ==
    \A i \in DOMAIN tasks :
        (tasks[i].live /\ tasks[i].msg.frame = "ok" /\ tasks[i].msg.seq <= cursorStore)
            => \/ tasks[i].pc = "done"
               \/ FailedKey(tasks[i].msg) \in DOMAIN failed

\* C33: delete wins: when the create of a post came in an earlier commit than
\* its delete and both handlers have finished, the Post is neither in the
\* database nor in the post presence cache.
DeleteWins ==
    \A c, d \in DOMAIN handlers :
        (/\ c < d
         /\ handlers[c].kind = "postCreate" /\ handlers[d].kind = "postDelete"
         /\ handlers[c].uri = handlers[d].uri
         /\ handlers[c].pc = "returned" /\ handlers[d].pc = "returned")
            => /\ handlers[c].uri \notin DOMAIN posts
               /\ handlers[c].uri \notin postUriCache

\* C37: every batch a Batcher flushes is sent as a request of its own, and its
\* waiters are resolved from the response to its keys: two batches of
\* different keys never await one request.
EveryBatchHasItsOwnRequest ==
    /\ \A f \in DOMAIN flushes :
          /\ requests[flushes[f].request].actors = flushes[f].keys
          /\ flushes[f].state = "resolved" =>
                \A k \in flushes[f].keys : flushes[f].result[k] = k
    /\ \A f, g \in DOMAIN flushes :
          flushes[f].keys # flushes[g].keys => flushes[f].request # flushes[g].request

====
